---- MODULE Spec2Model ----
(***************************************************************************)
(* Pipedrive -> Odoo reconciliation and Surfe enrichment orchestration.    *)
(* State: the four SQLite tables of db.py, the Odoo records and the        *)
(* Pipedrive records the handlers read and write, and one record per       *)
(* in-flight webhook handler (its position and its local variables).       *)
(* Every database access and every remote call is one atomic step, so the  *)
(* steps of concurrent handlers interleave.                                *)
(***************************************************************************)
EXTENDS Integers, Sequences, FiniteSets, TLC

\* ---- bounds ----
NumHandlers == 2
NumCallbacks == 2
MaxVersion == 2
MaxStoreId == 1         \* enrichment ids the store-only specification saves under

Handlers == 1..NumHandlers
Callbacks == 1..NumCallbacks
Versions == 1..MaxVersion

\* ---- configuration (config.py) ----
DOWNLOAD_STAGE_ID == 37
LEADFEEDER_STAGE_ID == 68
SURFE_ONLY_PIPELINES == {6}
PIPELINE_MAP == [x \in {4} |-> 1]
STAGE_MAP == (65 :> 3) @@ (25 :> 3) @@ (26 :> 5) @@ (27 :> 5) @@ (28 :> 7)
STATUS_STAGE_MAP == [s \in {"won", "lost"} |-> IF s = "won" THEN 7 ELSE 9]
OwnerDE == 24183342
GERMANY_USER_IDS == {OwnerDE}
\* a Pipedrive user outside GERMANY_USER_IDS
OwnerUK == 99
WEBHOOK_TOKEN == "secret"
SURFE_WEBHOOK_TOKEN == "surfe-secret"

\* ---- the Pipedrive records the handlers can meet ----
Worlds == {"sync", "seeded", "ambiguous", "enrich", "discover", "skipped", "foreign",
           "orphan", "linked", "moved"}
IsSync(w) == w \in {"sync", "seeded", "ambiguous"}
DealIds == {1, 2}

\* sync: two deals of the synced pipeline 4, outside the Surfe stages; only
\*   Pipedrive webhooks arrive.
\* seeded: as sync, but Odoo already holds records that match the Pipedrive
\*   ones (a company of the same name, a contact of the same email, leads of
\*   the same titles) and the mapping table is still empty.
\* ambiguous: as seeded, but Odoo holds every matching record twice (two
\*   companies of the name, two contacts of the email, two leads of each
\*   title); only update webhooks of one version arrive.
\* enrich: deal 1 sits in the leadfeeder stage (organization, no person),
\*   deal 2 in the download stage (person with email, no phone); both in the
\*   Surfe-only pipeline 6; the organization's website is known.  Deal create
\*   webhooks and Surfe callbacks arrive.
\* discover: as enrich, but the organization has no website yet, so the
\*   leadfeeder handler has to discover the domain, and deal 2 is in the
\*   synced pipeline 4 (a Surfe stage of a pipeline that is also reconciled);
\*   only deal webhooks arrive.
\* skipped: deal 1 (with a person) has status deleted, deal 2 has no pipeline;
\*   deal create and update webhooks of one version arrive.
\* foreign: both deals belong to a user outside GERMANY_USER_IDS; deal 1 is in
\*   the synced pipeline 4, deal 2 in the download stage of the Surfe-only
\*   pipeline 6; deal create and update webhooks of one version arrive.
\* orphan: both deals sit in the leadfeeder stage of pipeline 6 without an
\*   organization; deal 1 has a linked person, deal 2 has none.
\* linked: both deals sit in the leadfeeder stage of pipeline 6; deal 1 has the
\*   organization and a linked person, deal 2 an organization without a name
\*   and no person.  Deal create and update webhooks of one version arrive
\*   in orphan, deal added and change webhooks in linked.
\* moved: both deals are in the Surfe-only pipeline 6, outside the Surfe
\*   stages; deal 1 was reconciled while it was in pipeline 4 and moved
\*   afterwards, so its crm.lead and its mapping row exist.  Deal update and
\*   delete webhooks of one version arrive.
InitDeal(w, d) ==
    IF w = "moved"
    THEN [title |-> IF d = 1 THEN "T1" ELSE "T2", status |-> "open",
          pipeline_id |-> 6, stage_id |-> 25, user_id |-> OwnerDE,
          person_id |-> 0, org_id |-> 1]
    ELSE IF w \in {"orphan", "linked"}
    THEN [title |-> IF d = 1 THEN "T1" ELSE "T2", status |-> "open",
          pipeline_id |-> 6, stage_id |-> LEADFEEDER_STAGE_ID, user_id |-> OwnerDE,
          person_id |-> IF d = 1 THEN 1 ELSE 0,
          org_id |-> IF w = "orphan" THEN 0 ELSE d]
    ELSE IF w = "skipped"
    THEN [title |-> IF d = 1 THEN "T1" ELSE "T2",
          status |-> IF d = 1 THEN "deleted" ELSE "open",
          pipeline_id |-> IF d = 1 THEN 4 ELSE 0, stage_id |-> 25, user_id |-> OwnerDE,
          person_id |-> IF d = 1 THEN 1 ELSE 0, org_id |-> 1]
    ELSE IF w = "foreign"
    THEN [title |-> IF d = 1 THEN "T1" ELSE "T2", status |-> "open",
          pipeline_id |-> IF d = 1 THEN 4 ELSE 6,
          stage_id |-> IF d = 1 THEN 25 ELSE DOWNLOAD_STAGE_ID,
          user_id |-> OwnerUK, person_id |-> 1, org_id |-> 1]
    ELSE IF IsSync(w)
    THEN [title |-> IF d = 1 THEN "T1" ELSE "T2", status |-> "open",
          pipeline_id |-> 4, stage_id |-> 25, user_id |-> OwnerDE,
          person_id |-> IF d = 1 THEN 1 ELSE 0, org_id |-> 1]
    ELSE [title |-> IF d = 1 THEN "T1" ELSE "T2", status |-> "open",
          pipeline_id |-> IF w = "discover" /\ d = 2 THEN 4 ELSE 6,
          stage_id |-> IF d = 1 THEN LEADFEEDER_STAGE_ID ELSE DOWNLOAD_STAGE_ID,
          user_id |-> OwnerDE,
          person_id |-> IF d = 1 THEN 0 ELSE 1, org_id |-> 1]

\* the lead and the mapping row of the deal that was reconciled before it moved
MovedLeads ==
    << [name |-> "T1", partner_id |-> 0, team_id |-> 1, stage_id |-> 3, active |-> TRUE] >>

MovedMapping(k) == IF k = << "deal", 1 >> THEN 1 ELSE 0

InitPersons ==
    << [name |-> "P1", org_id |-> 1, owner_id |-> OwnerDE,
        email |-> "p1@orga.de", phone |-> "", job_title |-> ""] >>

SeedPartners ==
    << [name |-> "OrgA", is_company |-> TRUE, email |-> ""],
       [name |-> "P1", is_company |-> FALSE, email |-> "p1@orga.de"] >>

SeedLeads ==
    << [name |-> "T1", partner_id |-> 2, team_id |-> 1, stage_id |-> 3, active |-> TRUE],
       [name |-> "T2", partner_id |-> 0, team_id |-> 1, stage_id |-> 3, active |-> TRUE] >>

AmbiguousPartners ==
    << [name |-> "OrgA", is_company |-> TRUE, email |-> ""],
       [name |-> "OrgA", is_company |-> TRUE, email |-> ""],
       [name |-> "P1", is_company |-> FALSE, email |-> "p1@orga.de"],
       [name |-> "P1", is_company |-> FALSE, email |-> "p1@orga.de"] >>

AmbiguousLeads ==
    << [name |-> "T1", partner_id |-> 3, team_id |-> 1, stage_id |-> 3, active |-> TRUE],
       [name |-> "T1", partner_id |-> 3, team_id |-> 1, stage_id |-> 3, active |-> TRUE],
       [name |-> "T2", partner_id |-> 0, team_id |-> 1, stage_id |-> 3, active |-> TRUE],
       [name |-> "T2", partner_id |-> 0, team_id |-> 1, stage_id |-> 3, active |-> TRUE] >>

InitOrgs(w) ==
    << [name |-> "OrgA", owner_id |-> OwnerDE,
        website |-> IF w = "enrich" THEN "https://orga.de" ELSE ""] >>
    \o (IF w = "linked" THEN << [name |-> "", owner_id |-> OwnerDE, website |-> ""] >>
        ELSE << >>)

VARIABLES
    world,          \* which Pipedrive records exist (fixed by Init)
    events,         \* table events: the set of event keys
    mapping,        \* table mapping: (object_type, external_id) -> odoo_id, 0 = no row
    enrich,         \* table surfe_enrichments: enrichment id -> row, NoRow = no row
    claimed,        \* table surfe_processed_deals: set of <<deal_id, action_type>>
    odooPartners,   \* Odoo res.partner records, id = index
    odooLeads,      \* Odoo crm.lead records, id = index
    pdDeals,        \* Pipedrive deals
    pdPersons,      \* Pipedrive persons, id = index
    pdOrgs,         \* Pipedrive organizations, id = index
    surfeIssued,    \* number of enrichment ids Surfe has handed out
    h,              \* one record per Pipedrive webhook delivery
    cb,             \* one record per Surfe callback delivery
    calc            \* one call of a helper function: its arguments and its result;
                    \* or the direct callers of the dedup ledgers (SpecLedger)

vars == << world, events, mapping, enrich, claimed, odooPartners, odooLeads,
           pdDeals, pdPersons, pdOrgs, surfeIssued, h, cb, calc >>

dbVars == << events, mapping, enrich, claimed >>
odooVars == << odooPartners, odooLeads >>
pdVars == << pdDeals, pdPersons, pdOrgs >>

\* Surfe hands out the ids 1, 2, ...; the last id of EnrichIds is never handed out.
EnrichIds == 1..(NumHandlers + 1)
NoRow == [status |-> "none"]
NoPending ==
    [present |-> FALSE, name |-> "", org_id |-> 0, org_name |-> "", owner_id |-> 0,
     job_title |-> "", linkedin_url |-> "", domain |-> ""]

MappingKeys == {"org", "person", "deal"} \X (1..(1 + NumCallbacks))

\* ---- handler records ----
NoEvent == [entity |-> "", action |-> "", obj |-> 0, ver |-> 0, token |-> ""]

IdleHandler ==
    [pc |-> "idle", ev |-> NoEvent, resp |-> "", log |-> << >>,
     skip |-> FALSE,
     deal_id |-> 0, person_id |-> 0, org_id |-> 0,
     oret |-> "", pret |-> "",
     oid |-> 0, parent_id |-> 0, partner_id |-> 0]

\* Leaving the handler: the locals die, the response and the calls made stay.
Finish(r, resp) ==
    [IdleHandler EXCEPT !.pc = "done", !.ev = r.ev, !.resp = resp,
                        !.log = r.log]

Logged(r, entry) == [r EXCEPT !.log = Append(r.log, entry)]

SetH(p, r) == h' = [h EXCEPT ![p] = r]

\* ---- db.py ----
mapping_get(obj_type, external_id) == mapping[<< obj_type, external_id >>]

\* a store whose REPLACE matches on object_type alone
mapping_set_by_type(obj_type, external_id, odoo_id) ==
    mapping' = [k \in MappingKeys |-> IF k[1] = obj_type THEN odoo_id ELSE mapping[k]]

\* a store that drops the row
mapping_set_skip(obj_type, external_id, odoo_id) == mapping' = mapping

mapping_set(obj_type, external_id, odoo_id) ==
    mapping' = [mapping EXCEPT ![<< obj_type, external_id >>] = odoo_id]

\* a lookup that reports every key as new
event_seen_never(event_key) == FALSE

\* INSERT INTO events: the primary key rejects a second insert of the key.
\* TRUE = duplicate.  The insert itself is EventInsert.
event_seen(event_key) == event_key \in events

\* a ledger that does not record the key when the event arrives
EventInsert_not_recorded(event_key) == events' = events

EventInsert(event_key) == events' = events \cup {event_key}

\* ---- Odoo (odoo.py: odoo_search, odoo_search_read, odoo_create, odoo_write) ----
PartnerByName(name) ==
    {i \in DOMAIN odooPartners : odooPartners[i].name = name /\ odooPartners[i].is_company}

PartnerByEmail(email) ==
    {i \in DOMAIN odooPartners : odooPartners[i].email = email}

\* find_existing_deal_in_odoo, first tier: name + partner (+ team)
LeadByNamePartner(title, partner_id, team_id) ==
    {i \in DOMAIN odooLeads : /\ odooLeads[i].name = title
                              /\ odooLeads[i].partner_id = partner_id
                              /\ (team_id # 0 => odooLeads[i].team_id = team_id)}

\* find_existing_deal_in_odoo, second tier: name (+ team)
LeadByName(title, team_id) ==
    {i \in DOMAIN odooLeads : /\ odooLeads[i].name = title
                              /\ (team_id # 0 => odooLeads[i].team_id = team_id)}

\* ---- pipedrive.py ----
owner_allowed(owner_id) ==
    IF GERMANY_USER_IDS = {} THEN TRUE
    ELSE IF owner_id = 0 THEN FALSE
    ELSE owner_id \in GERMANY_USER_IDS

\* ---- the webhook deliveries Pipedrive can make ----
\* a trigger test that lets every action through
IsCreateAction_every(a) == TRUE

\* action in ("create", "added") (app.py:1142)
IsCreateAction(a) == a \in {"create", "added"}

Deliverable ==
    LET deals == {[entity |-> "deal", action |-> a, obj |-> d, ver |-> v, token |-> WEBHOOK_TOKEN] :
                    a \in (IF world = "ambiguous" THEN {"update"}
                           ELSE IF IsSync(world) THEN {"create", "update", "delete"}
                           ELSE IF world = "enrich" THEN {"create"}
                           ELSE IF world = "linked" THEN {"added", "change"}
                           ELSE IF world = "moved" THEN {"update", "delete"}
                           ELSE {"create", "update"}),
                    d \in DealIds,
                    v \in (IF world \in {"ambiguous", "skipped", "foreign", "orphan", "linked",
                                        "moved"}
                           THEN {1}
                           ELSE Versions)}
        others == {[entity |-> e, action |-> "update", obj |-> 1, ver |-> v, token |-> WEBHOOK_TOKEN] :
                    e \in {"person", "organization", "note"}, v \in {1}}
        forged == {[entity |-> "deal", action |-> "create", obj |-> 1, ver |-> 1, token |-> "wrong"]}
    IN  IF IsSync(world) THEN deals \cup others \cup forged
        ELSE IF world = "enrich" THEN deals \cup forged
        ELSE deals

\* event_key = f"{event}:{obj_id}:{v}", event = f"{entity}.{action}"
EventKey(ev) == << ev.entity, ev.action, ev.obj, ev.ver >>

\* a token check that lets every request in
TokenOk_any(token, configured) == TRUE

\* req.query_params.get("token") != WEBHOOK_TOKEN (app.py:1100, 1194)
TokenOk(token, configured) == token = configured

\* ---- pipedrive_webhook ----
pipedrive_webhook_receive(p) ==
    /\ h[p].pc = "idle"
    /\ \A q \in Handlers : q < p => h[q].pc # "idle"
    /\ \E ev \in Deliverable :
         LET r == [h[p] EXCEPT !.ev = ev] IN
         IF ~TokenOk(ev.token, WEBHOOK_TOKEN)
         THEN SetH(p, Finish(r, "401")) /\ UNCHANGED events
         ELSE IF event_seen(EventKey(ev))
         THEN SetH(p, Finish(r, "deduped")) /\ UNCHANGED events
         ELSE EventInsert(EventKey(ev)) /\ SetH(p, [r EXCEPT !.pc = "login"])
    /\ UNCHANGED << world, calc, mapping, enrich, claimed, odooVars, pdVars, surfeIssued, cb >>

\* a dispatch without the delete branch: a deleted deal is reconciled like any other
Dispatch_no_delete(r) ==
    LET ev == r.ev IN
    IF ev.entity = "organization"
    THEN [r EXCEPT !.pc = "org_fetch", !.org_id = ev.obj, !.oret = "top"]
    ELSE IF ev.entity = "person"
    THEN [r EXCEPT !.pc = "per_fetch", !.person_id = ev.obj, !.pret = "top"]
    ELSE IF ev.entity = "deal"
    THEN [r EXCEPT !.deal_id = ev.obj,
                   !.pc = IF IsCreateAction(ev.action) THEN "stage" ELSE "pipecheck"]
    ELSE Finish(r, "ignored")

Dispatch(r) ==
    LET ev == r.ev IN
    IF ev.entity = "deal" /\ ev.action = "delete"
    THEN [r EXCEPT !.pc = "archive", !.deal_id = ev.obj]
    ELSE IF ev.entity = "organization"
    THEN [r EXCEPT !.pc = "org_fetch", !.org_id = ev.obj, !.oret = "top"]
    ELSE IF ev.entity = "person"
    THEN [r EXCEPT !.pc = "per_fetch", !.person_id = ev.obj, !.pret = "top"]
    ELSE IF ev.entity = "deal"
    THEN [r EXCEPT !.deal_id = ev.obj,
                   !.pc = IF IsCreateAction(ev.action) THEN "stage" ELSE "pipecheck"]
    ELSE Finish(r, "ignored")

\* uid = odoo_login(), then the dispatch on entity and action
pipedrive_webhook_login(p) ==
    /\ h[p].pc = "login"
    /\ \/ SetH(p, Dispatch(h[p]))
       \/ SetH(p, Finish(h[p], "error"))
    /\ UNCHANGED << world, calc, dbVars, odooVars, pdVars, surfeIssued, cb >>

\* archive_deal_in_odoo: mapping_get
archive_deal_lookup(p) ==
    /\ h[p].pc = "archive"
    /\ LET mapped == mapping_get("deal", h[p].deal_id) IN
       IF mapped = 0
       THEN SetH(p, Finish(h[p], "archived"))
       ELSE SetH(p, [h[p] EXCEPT !.pc = "archive_write", !.oid = mapped])
    /\ UNCHANGED << world, calc, dbVars, odooVars, pdVars, surfeIssued, cb >>

\* archive_deal_in_odoo: odoo_write(uid, "crm.lead", mapped, {"active": False})
archive_deal_write(p) ==
    /\ h[p].pc = "archive_write"
    /\ \/ /\ odooLeads' = [odooLeads EXCEPT ![h[p].oid].active = FALSE]
          /\ SetH(p, Finish(Logged(h[p], [op |-> "odoo_write", model |-> "crm.lead",
                                          id |-> h[p].oid,
                                          src |-> << "deal", h[p].deal_id >>]), "archived"))
       \/ /\ SetH(p, Finish(h[p], "error"))
          /\ UNCHANGED odooLeads
    /\ UNCHANGED << world, calc, dbVars, odooPartners, pdVars, surfeIssued, cb >>

\* a stage block after which the deal is never reconciled
AfterStage_skip(r) == Finish(r, "ok")

\* after the stage block: upsert_deal unless the pipeline is Surfe-only
AfterStage(r) ==
    IF r.skip THEN Finish(r, "ok")
    ELSE [r EXCEPT !.pc = "deal_fetch", !.person_id = 0, !.org_id = 0]

\* create/added: deal = pd_get(...), pipeline and stage checks
pipedrive_webhook_stage(p) ==
    /\ h[p].pc = "stage"
    /\ \/ LET d == pdDeals[h[p].deal_id]
              r == [h[p] EXCEPT !.skip = d.pipeline_id \in SURFE_ONLY_PIPELINES,
                                !.person_id = d.person_id, !.org_id = d.org_id]
          IN  IF d.stage_id = DOWNLOAD_STAGE_ID
              THEN SetH(p, [r EXCEPT !.pc = "download"])
              ELSE IF d.stage_id = LEADFEEDER_STAGE_ID
              THEN SetH(p, [r EXCEPT !.pc = "leadfeeder"])
              ELSE SetH(p, AfterStage(r))
       \/ SetH(p, AfterStage(h[p]))      \* pd_get raises, caught at app.py:1163
    /\ UNCHANGED << world, calc, dbVars, odooVars, pdVars, surfeIssued, cb >>

\* other actions: the pipeline check of app.py:1167-1174
pipedrive_webhook_pipecheck(p) ==
    /\ h[p].pc = "pipecheck"
    /\ \/ LET d == pdDeals[h[p].deal_id] IN
          SetH(p, AfterStage([h[p] EXCEPT !.skip = d.pipeline_id \in SURFE_ONLY_PIPELINES]))
       \/ SetH(p, AfterStage(h[p]))      \* pd_get raises, caught at app.py:1173
    /\ UNCHANGED << world, calc, dbVars, odooVars, pdVars, surfeIssued, cb >>

\* ---- db.py: surfe_enrichments ----
\* INSERT OR REPLACE: the row is rewritten whole, status falls back to its default
save_enrichment(enrichment_id, deal_id, person_id, enrichment_type, pending_person_data) ==
    enrich' = [enrich EXCEPT ![enrichment_id] =
                  [status |-> "pending", deal_id |-> deal_id, person_id |-> person_id,
                   type |-> enrichment_type, pending |-> pending_person_data]]

\* a lookup that answers a row for every id
get_enrichment_any(enrichment_id) ==
    [status |-> "pending", deal_id |-> 1, person_id |-> 1, type |-> "download",
     pending |-> NoPending]

get_enrichment(enrichment_id) == enrich[enrichment_id]

complete_enrichment(enrichment_id) ==
    enrich' = [enrich EXCEPT ![enrichment_id] =
                  IF @ = NoRow THEN @ ELSE [@ EXCEPT !.status = "completed"]]

\* ---- helpers.py ----
extract_domain_from_website(website) ==
    IF website = "" THEN ""
    ELSE IF website = "https://orga.de" THEN "orga.de"
    ELSE website

\* pd_update_org: website = f"https://{website}" unless it starts with http
WebsiteOf(domain) == IF domain = "orga.de" THEN "https://orga.de" ELSE domain

\* ---- surfe.py: stage handlers ----
\* the candidates select_best_icp_person can hand back
BestPersons ==
    { [firstName |-> "Ann", lastName |-> "Lee", jobTitle |-> t, linkedInUrl |-> "li/ann"] :
        t \in {"CISO"} }

FullName(b) == b.firstName \o " " \o b.lastName

HasUsablePhone(person) == person.phone # "" /\ person.phone # "123"

handle_download_stage(p) ==
    /\ h[p].pc = "download"
    /\ LET r == Logged(h[p], [op |-> "stage_handler", kind |-> "download",
                              deal |-> h[p].deal_id])
           person == pdPersons[r.person_id]
           eid == surfeIssued + 1
       IN  \/ \* no person, no email, phone present, a fetch or the enrichment call
              \* raising, or no enrichmentID in the answer
              /\ SetH(p, AfterStage(r))
              /\ UNCHANGED << enrich, surfeIssued >>
           \/ /\ r.person_id # 0
              /\ person.email # ""
              /\ ~HasUsablePhone(person)
              /\ save_enrichment(eid, r.deal_id, r.person_id, "download", NoPending)
              /\ surfeIssued' = eid
              /\ SetH(p, AfterStage(Logged(r, [op |-> "save_enrichment", id |-> eid])))
    /\ UNCHANGED << world, calc, events, mapping, claimed, odooVars, pdVars, cb >>

\* what guess_company_domain (DNS probes) and search_company_domain (web
\* search) can return for the organization: nothing, or a domain
GuessResults == {"", "orga.de"}

SearchResults == {"", "orga.de"}

\* a discovery that runs all three strategies whatever the earlier ones found
DiscoverDomain_all(site, guessed, searched) ==
    [domain |-> IF site # "" THEN site ELSE IF guessed # "" THEN guessed ELSE searched,
     discovered |-> site = "" /\ (guessed # "" \/ searched # ""),
     calls |-> << [op |-> "guess_company_domain", result |-> guessed],
                  [op |-> "search_company_domain", result |-> searched] >>]

\* Domain discovery of handle_leadfeeder_stage (surfe.py:227-243):
\*   domain = extract_domain_from_website(website)
\*   if not domain: domain = guess_company_domain(org_name, region)
\*   if not domain: domain = search_company_domain(org_name)
\* guessed and searched are what the two strategies return when invoked.
DiscoverDomain(site, guessed, searched) ==
    LET d1 == site
        d2 == IF d1 = "" THEN guessed ELSE d1
        c2 == IF d1 = "" THEN << [op |-> "guess_company_domain", result |-> guessed] >>
              ELSE << >>
        f2 == d1 = "" /\ guessed # ""
        d3 == IF d2 = "" THEN searched ELSE d2
        c3 == IF d2 = ""
              THEN Append(c2, [op |-> "search_company_domain", result |-> searched])
              ELSE c2
        f3 == f2 \/ (d2 = "" /\ searched # "")
    IN  [domain |-> d3, discovered |-> f3, calls |-> c3]

DomainOutcomes(org) ==
    { DiscoverDomain(extract_domain_from_website(org.website), g, s) :
          g \in GuessResults, s \in SearchResults }

NoteKinds == {"no_people", "no_match", "enrich_failed", "error"}

\* a stage handler that creates the contact at once, before any enrichment
handle_leadfeeder_stage_eager(p) ==
    /\ h[p].pc = "leadfeeder"
    /\ pdPersons' = Append(pdPersons, [name |-> "Ann Lee", org_id |-> h[p].org_id,
                                       owner_id |-> pdDeals[h[p].deal_id].user_id,
                                       email |-> "", phone |-> "", job_title |-> "CISO"])
    /\ SetH(p, AfterStage(Logged(h[p], [op |-> "stage_handler", kind |-> "leadfeeder",
                                        deal |-> h[p].deal_id])))
    /\ UNCHANGED << world, calc, dbVars, odooVars, pdDeals, pdOrgs, surfeIssued, cb >>

\* a stage handler that searches and stores a request for whatever deal it gets
handle_leadfeeder_stage_unchecked(p) ==
    /\ h[p].pc = "leadfeeder"
    /\ LET r == Logged(h[p], [op |-> "stage_handler", kind |-> "leadfeeder",
                              deal |-> h[p].deal_id])
           eid == surfeIssued + 1
       IN  /\ save_enrichment(eid, r.deal_id, 0, "leadfeeder",
                              [NoPending EXCEPT !.present = TRUE, !.name = "Ann Lee",
                                                !.org_id = r.org_id])
           /\ surfeIssued' = eid
           /\ SetH(p, AfterStage(Logged(Logged(r, [op |-> "surfe_search_people",
                                                   domain |-> ""]),
                                        [op |-> "save_enrichment", id |-> eid])))
    /\ UNCHANGED << world, calc, events, mapping, claimed, odooVars, pdVars, cb >>

\* a write-back of every domain, whatever strategy produced it
WriteBack_always(dom) == dom.domain # ""

\* if domain_was_discovered and domain: pd_update_org(...) (surfe.py:245-247)
WriteBack(dom) == dom.discovered /\ dom.domain # ""

handle_leadfeeder_stage(p) ==
    /\ h[p].pc = "leadfeeder"
    /\ LET r == Logged(h[p], [op |-> "stage_handler", kind |-> "leadfeeder",
                              deal |-> h[p].deal_id])
           deal == pdDeals[r.deal_id]
           org == pdOrgs[r.org_id]
           eid == surfeIssued + 1
           note(k) == [op |-> "pd_add_note", deal |-> r.deal_id, kind |-> k]
           \* the note was posted and the post raised (pd_post, pipedrive.py)
           lost(k) == [op |-> "pd_add_note_failed", deal |-> r.deal_id, kind |-> k]
       IN  IF r.org_id = 0
           THEN /\ \/ SetH(p, AfterStage(Logged(r, note("no_org"))))
                   \/ SetH(p, AfterStage(Logged(r, lost("no_org"))))
                /\ UNCHANGED << enrich, surfeIssued, pdOrgs >>
           ELSE IF r.person_id # 0
           THEN SetH(p, AfterStage(r)) /\ UNCHANGED << enrich, surfeIssued, pdOrgs >>
           ELSE \/ \* pd_get of the organization raises
                   /\ SetH(p, AfterStage(Logged(r, [op |-> "pd_get_failed",
                                                    org |-> r.org_id])))
                   /\ UNCHANGED << enrich, surfeIssued, pdOrgs >>
                \/ /\ org.name = ""
                   /\ \/ SetH(p, AfterStage(Logged(r, note("no_org_name"))))
                      \/ SetH(p, AfterStage(Logged(r, lost("no_org_name"))))
                   /\ UNCHANGED << enrich, surfeIssued, pdOrgs >>
                \/ /\ org.name # ""
                   /\ \E dom \in DomainOutcomes(org), saved \in BOOLEAN :
                        LET r1 == [r EXCEPT !.log = r.log \o dom.calls]
                            \* the write-back may raise (ok = FALSE): caught and
                            \* logged, then surfe_search_people is called
                            r1b == IF WriteBack(dom)
                                   THEN Logged(r1, [op |-> "pd_update_org", org |-> r.org_id,
                                                    website |-> WebsiteOf(dom.domain),
                                                    ok |-> saved])
                                   ELSE r1
                            r2 == Logged(r1b, [op |-> "surfe_search_people",
                                               domain |-> dom.domain])
                        IN
                        /\ WriteBack(dom) \/ saved
                        /\ pdOrgs' = IF WriteBack(dom) /\ saved
                                     THEN [pdOrgs EXCEPT ![r.org_id].website = WebsiteOf(dom.domain)]
                                     ELSE pdOrgs
                        /\ \/ \* a search or the enrichment call fails, or nobody is
                              \* found: one note, or none when posting it raises
                              /\ \E k \in NoteKinds : SetH(p, AfterStage(Logged(r2, note(k))))
                              /\ UNCHANGED << enrich, surfeIssued >>
                           \/ /\ SetH(p, AfterStage(r2))
                              /\ UNCHANGED << enrich, surfeIssued >>
                           \/ \E best \in BestPersons :
                                /\ save_enrichment(eid, r.deal_id, 0, "leadfeeder",
                                     [present |-> TRUE, name |-> FullName(best),
                                      org_id |-> r.org_id, org_name |-> org.name,
                                      owner_id |-> deal.user_id, job_title |-> best.jobTitle,
                                      linkedin_url |-> best.linkedInUrl, domain |-> dom.domain])
                                /\ surfeIssued' = eid
                                /\ SetH(p, AfterStage(Logged(r2, [op |-> "save_enrichment",
                                                                  id |-> eid])))
    /\ UNCHANGED << world, calc, events, mapping, claimed, odooVars, pdDeals, pdPersons, cb >>

\* ---- odoo.py: upsert_org ----
OrgReturn(r, v) ==
    IF r.oret = "top" THEN Finish(r, "ok")
    ELSE IF r.oret = "person"
    THEN [r EXCEPT !.pc = "per_mget", !.parent_id = IF v = -1 THEN 0 ELSE v, !.oid = 0]
    ELSE [r EXCEPT !.pc = "deal_mget", !.partner_id = IF v = -1 THEN 0 ELSE v, !.oid = 0]

\* one entry of a handler's call log: the Odoo call and the Pipedrive entity it is for
OdooCall(op, model, id, src) == [op |-> op, model |-> model, id |-> id, src |-> src]

\* org = pd_get(...), owner filter, mapped = mapping_get("org", org_id)
upsert_org_fetch(p) ==
    /\ h[p].pc = "org_fetch"
    /\ \/ LET org == pdOrgs[h[p].org_id]
              mapped == mapping_get("org", h[p].org_id)
          IN  IF ~owner_allowed(org.owner_id)
              THEN SetH(p, OrgReturn(h[p], -1))
              ELSE IF mapped # 0
              THEN SetH(p, [h[p] EXCEPT !.pc = "org_write", !.oid = mapped])
              ELSE SetH(p, [h[p] EXCEPT !.pc = "org_search"])
       \/ SetH(p, Finish(h[p], "error"))
    /\ UNCHANGED << world, calc, dbVars, odooVars, pdVars, surfeIssued, cb >>

OrgVals(org, old) == [old EXCEPT !.name = org.name, !.is_company = TRUE]

\* if mapped: odoo_write(uid, "res.partner", mapped, vals); return mapped
upsert_org_write(p) ==
    /\ h[p].pc = "org_write"
    /\ \/ /\ odooPartners' = [odooPartners EXCEPT ![h[p].oid] = OrgVals(pdOrgs[h[p].org_id], @)]
          /\ SetH(p, OrgReturn(Logged(h[p], OdooCall("odoo_write", "res.partner", h[p].oid, << "org", h[p].org_id >>)),
                               h[p].oid))
       \/ /\ SetH(p, Finish(h[p], "error"))
          /\ UNCHANGED odooPartners
    /\ UNCHANGED << world, calc, dbVars, odooLeads, pdVars, surfeIssued, cb >>

\* found = odoo_search(uid, "res.partner", [name, is_company], limit=1)
upsert_org_search(p) ==
    /\ h[p].pc = "org_search"
    /\ LET found == PartnerByName(pdOrgs[h[p].org_id].name) IN
       \/ /\ found # {}
          /\ \E f \in found : SetH(p, [h[p] EXCEPT !.pc = "org_wfound", !.oid = f])
       \/ /\ found = {}
          /\ SetH(p, [h[p] EXCEPT !.pc = "org_create"])
       \/ SetH(p, Finish(h[p], "error"))
    /\ UNCHANGED << world, calc, dbVars, odooVars, pdVars, surfeIssued, cb >>

\* if found: odoo_write(uid, "res.partner", found[0], vals)
upsert_org_write_found(p) ==
    /\ h[p].pc = "org_wfound"
    /\ \/ /\ odooPartners' = [odooPartners EXCEPT ![h[p].oid] = OrgVals(pdOrgs[h[p].org_id], @)]
          /\ SetH(p, [Logged(h[p], OdooCall("odoo_write", "res.partner", h[p].oid, << "org", h[p].org_id >>))
                        EXCEPT !.pc = "org_set"])
       \/ /\ SetH(p, Finish(h[p], "error"))
          /\ UNCHANGED odooPartners
    /\ UNCHANGED << world, calc, dbVars, odooLeads, pdVars, surfeIssued, cb >>

\* else: odoo_id = odoo_create(uid, "res.partner", vals)
upsert_org_create(p) ==
    /\ h[p].pc = "org_create"
    /\ \/ LET id == Len(odooPartners) + 1 IN
          /\ odooPartners' = Append(odooPartners,
                                OrgVals(pdOrgs[h[p].org_id],
                                        [name |-> "", is_company |-> FALSE, email |-> ""]))
          /\ SetH(p, [Logged(h[p], OdooCall("odoo_create", "res.partner", id, << "org", h[p].org_id >>))
                        EXCEPT !.pc = "org_set", !.oid = id])
       \/ /\ SetH(p, Finish(h[p], "error"))
          /\ UNCHANGED odooPartners
    /\ UNCHANGED << world, calc, dbVars, odooLeads, pdVars, surfeIssued, cb >>

\* mapping_set("org", org_id, odoo_id); return odoo_id
upsert_org_set(p) ==
    /\ h[p].pc = "org_set"
    /\ mapping_set("org", h[p].org_id, h[p].oid)
    /\ SetH(p, OrgReturn(h[p], h[p].oid))
    /\ UNCHANGED << world, calc, events, enrich, claimed, odooVars, pdVars, surfeIssued, cb >>

\* ---- odoo.py: upsert_person ----
PerReturn(r, v) ==
    IF r.pret = "top" THEN Finish(r, "ok")
    ELSE [r EXCEPT !.pc = "deal_mget", !.partner_id = IF v = -1 THEN 0 ELSE v,
                   !.oid = 0, !.parent_id = 0]

\* p = pd_get(...), owner filter, parent_id = upsert_org(...) if org_id
upsert_person_fetch(p) ==
    /\ h[p].pc = "per_fetch"
    /\ \/ LET person == pdPersons[h[p].person_id] IN
          IF ~owner_allowed(person.owner_id)
          THEN SetH(p, PerReturn(h[p], -1))
          ELSE IF person.org_id # 0
          THEN SetH(p, [h[p] EXCEPT !.pc = "org_fetch", !.org_id = person.org_id,
                                    !.oret = "person"])
          ELSE SetH(p, [h[p] EXCEPT !.pc = "per_mget"])
       \/ SetH(p, Finish(h[p], "error"))
    /\ UNCHANGED << world, calc, dbVars, odooVars, pdVars, surfeIssued, cb >>

\* mapped = mapping_get("person", person_id)
upsert_person_lookup(p) ==
    /\ h[p].pc = "per_mget"
    /\ LET mapped == mapping_get("person", h[p].person_id) IN
       IF mapped # 0
       THEN SetH(p, [h[p] EXCEPT !.pc = "per_write", !.oid = mapped])
       ELSE IF pdPersons[h[p].person_id].email # ""
       THEN SetH(p, [h[p] EXCEPT !.pc = "per_search"])
       ELSE SetH(p, [h[p] EXCEPT !.pc = "per_create"])
    /\ UNCHANGED << world, calc, dbVars, odooVars, pdVars, surfeIssued, cb >>

PersonVals(person, old) == [old EXCEPT !.name = person.name, !.email = person.email]

upsert_person_write(p) ==
    /\ h[p].pc = "per_write"
    /\ \/ /\ odooPartners' = [odooPartners EXCEPT ![h[p].oid] =
                                 PersonVals(pdPersons[h[p].person_id], @)]
          /\ SetH(p, PerReturn(Logged(h[p], OdooCall("odoo_write", "res.partner", h[p].oid, << "person", h[p].person_id >>)),
                               h[p].oid))
       \/ /\ SetH(p, Finish(h[p], "error"))
          /\ UNCHANGED odooPartners
    /\ UNCHANGED << world, calc, dbVars, odooLeads, pdVars, surfeIssued, cb >>

\* found = odoo_search(uid, "res.partner", [("email", "=", email)], limit=1)
upsert_person_search(p) ==
    /\ h[p].pc = "per_search"
    /\ LET found == PartnerByEmail(pdPersons[h[p].person_id].email) IN
       \/ /\ found # {}
          /\ \E f \in found : SetH(p, [h[p] EXCEPT !.pc = "per_wfound", !.oid = f])
       \/ /\ found = {}
          /\ SetH(p, [h[p] EXCEPT !.pc = "per_create"])
       \/ SetH(p, Finish(h[p], "error"))
    /\ UNCHANGED << world, calc, dbVars, odooVars, pdVars, surfeIssued, cb >>

upsert_person_write_found(p) ==
    /\ h[p].pc = "per_wfound"
    /\ \/ /\ odooPartners' = [odooPartners EXCEPT ![h[p].oid] =
                                 PersonVals(pdPersons[h[p].person_id], @)]
          /\ SetH(p, [Logged(h[p], OdooCall("odoo_write", "res.partner", h[p].oid, << "person", h[p].person_id >>))
                        EXCEPT !.pc = "per_set"])
       \/ /\ SetH(p, Finish(h[p], "error"))
          /\ UNCHANGED odooPartners
    /\ UNCHANGED << world, calc, dbVars, odooLeads, pdVars, surfeIssued, cb >>

upsert_person_create(p) ==
    /\ h[p].pc = "per_create"
    /\ \/ LET id == Len(odooPartners) + 1 IN
          /\ odooPartners' = Append(odooPartners,
                                PersonVals(pdPersons[h[p].person_id],
                                           [name |-> "", is_company |-> FALSE, email |-> ""]))
          /\ SetH(p, [Logged(h[p], OdooCall("odoo_create", "res.partner", id, << "person", h[p].person_id >>))
                        EXCEPT !.pc = "per_set", !.oid = id])
       \/ /\ SetH(p, Finish(h[p], "error"))
          /\ UNCHANGED odooPartners
    /\ UNCHANGED << world, calc, dbVars, odooLeads, pdVars, surfeIssued, cb >>

upsert_person_set(p) ==
    /\ h[p].pc = "per_set"
    /\ mapping_set("person", h[p].person_id, h[p].oid)
    /\ SetH(p, PerReturn(h[p], h[p].oid))
    /\ UNCHANGED << world, calc, events, enrich, claimed, odooVars, pdVars, surfeIssued, cb >>

\* ---- odoo.py: upsert_deal ----
TeamOf(d) == PIPELINE_MAP[d.pipeline_id]

\* a stage lookup that consults the stage-id table before the status table
StageOf_stage_first(d) ==
    IF d.stage_id \in DOMAIN STAGE_MAP THEN STAGE_MAP[d.stage_id]
    ELSE IF d.status \in DOMAIN STATUS_STAGE_MAP THEN STATUS_STAGE_MAP[d.status]
    ELSE 0

\* odoo_stage_id of upsert_deal (odoo.py:259-266); 0 stands for None
StageOf(d) ==
    IF d.status \in DOMAIN STATUS_STAGE_MAP THEN STATUS_STAGE_MAP[d.status]
    ELSE IF d.stage_id \in DOMAIN STAGE_MAP THEN STAGE_MAP[d.stage_id]
    ELSE 0

\* what upsert_deal hands back: -1 for a skipped deal, else the crm.lead id
Returned(r, value) == Logged(r, [op |-> "upsert_deal_return", value |-> value])

\* a deal filter without the pipeline allowlist
DealFilteredOut_status_only(d) == d.status = "deleted"

\* a deal filter that looks at the pipeline only
DealFilteredOut_pipeline_only(d) ==
    d.pipeline_id = 0 \/ d.pipeline_id \notin DOMAIN PIPELINE_MAP

\* status == "deleted", pipeline_id is None or not in PIPELINE_MAP (odoo.py:224-232)
DealFilteredOut(d) ==
    \/ d.status = "deleted"
    \/ d.pipeline_id = 0
    \/ d.pipeline_id \notin DOMAIN PIPELINE_MAP

\* an owner filter that lets every owner through
OwnerFilteredOut_never(d) == FALSE

\* GERMANY_USER_IDS and owner_id not in GERMANY_USER_IDS (odoo.py:238)
OwnerFilteredOut(d) == GERMANY_USER_IDS # {} /\ d.user_id \notin GERMANY_USER_IDS

\* d = pd_get(...); deleted, pipeline and owner filters; the linked person or org
upsert_deal_fetch(p) ==
    /\ h[p].pc = "deal_fetch"
    /\ \/ LET d == pdDeals[h[p].deal_id] IN
          IF DealFilteredOut(d)
          THEN SetH(p, Finish(Returned(h[p], -1), "ok"))
          ELSE IF OwnerFilteredOut(d)
          THEN SetH(p, Finish(Returned(h[p], -1), "ok"))
          ELSE IF d.person_id # 0
          THEN SetH(p, [h[p] EXCEPT !.pc = "per_fetch", !.person_id = d.person_id,
                                    !.pret = "deal"])
          ELSE IF d.org_id # 0
          THEN SetH(p, [h[p] EXCEPT !.pc = "org_fetch", !.org_id = d.org_id,
                                    !.oret = "deal"])
          ELSE SetH(p, [h[p] EXCEPT !.pc = "deal_mget"])
       \/ SetH(p, Finish(h[p], "error"))
    /\ UNCHANGED << world, calc, dbVars, odooVars, pdVars, surfeIssued, cb >>

\* mapped = mapping_get("deal", deal_id)
upsert_deal_lookup(p) ==
    /\ h[p].pc = "deal_mget"
    /\ LET mapped == mapping_get("deal", h[p].deal_id) IN
       IF mapped # 0
       THEN SetH(p, [h[p] EXCEPT !.pc = "deal_write", !.oid = mapped])
       ELSE IF h[p].partner_id # 0
       THEN SetH(p, [h[p] EXCEPT !.pc = "deal_find1"])
       ELSE SetH(p, [h[p] EXCEPT !.pc = "deal_find2"])
    /\ UNCHANGED << world, calc, dbVars, odooVars, pdVars, surfeIssued, cb >>

DealVals(d, partner_id, old) ==
    [old EXCEPT !.name = d.title, !.partner_id = partner_id, !.team_id = TeamOf(d),
                !.stage_id = IF StageOf(d) # 0 THEN StageOf(d) ELSE @]

upsert_deal_write(p) ==
    /\ h[p].pc = "deal_write"
    /\ \/ /\ odooLeads' = [odooLeads EXCEPT ![h[p].oid] =
                              DealVals(pdDeals[h[p].deal_id], h[p].partner_id, @)]
          /\ SetH(p, Finish(Returned(Logged(h[p], OdooCall("odoo_write", "crm.lead", h[p].oid,
                                                           << "deal", h[p].deal_id >>)),
                                      h[p].oid), "ok"))
       \/ /\ SetH(p, Finish(h[p], "error"))
          /\ UNCHANGED odooLeads
    /\ UNCHANGED << world, calc, dbVars, odooPartners, pdVars, surfeIssued, cb >>

\* find_existing_deal_in_odoo, 1): name + partner (+ team), limit=1
find_existing_deal_by_partner(p) ==
    /\ h[p].pc = "deal_find1"
    /\ LET d == pdDeals[h[p].deal_id]
           rows == LeadByNamePartner(d.title, h[p].partner_id, TeamOf(d))
           r == Logged(h[p], OdooCall("odoo_search_read", "crm.lead", 0,
                                      << "deal", h[p].deal_id >>))
       IN  \/ /\ rows # {}
              /\ \E f \in rows : SetH(p, [r EXCEPT !.pc = "deal_wfound", !.oid = f])
           \/ /\ rows = {}
              /\ SetH(p, [r EXCEPT !.pc = "deal_find2"])
           \/ SetH(p, Finish(h[p], "error"))
    /\ UNCHANGED << world, calc, dbVars, odooVars, pdVars, surfeIssued, cb >>

\* a name-only tier that takes the first match however many there are
find_existing_deal_by_name_first(p) ==
    /\ h[p].pc = "deal_find2"
    /\ LET d == pdDeals[h[p].deal_id]
           rows == LeadByName(d.title, TeamOf(d))
           r == Logged(h[p], OdooCall("odoo_search_read", "crm.lead", 0,
                                      << "deal", h[p].deal_id >>))
       IN  \/ /\ rows # {}
              /\ \E f \in rows : SetH(p, [r EXCEPT !.pc = "deal_wfound", !.oid = f])
           \/ /\ rows = {}
              /\ SetH(p, [r EXCEPT !.pc = "deal_create"])
    /\ UNCHANGED << world, calc, dbVars, odooVars, pdVars, surfeIssued, cb >>

\* find_existing_deal_in_odoo, 2): name (+ team), limit=2, used only if unique
find_existing_deal_by_name(p) ==
    /\ h[p].pc = "deal_find2"
    /\ LET d == pdDeals[h[p].deal_id]
           rows == LeadByName(d.title, TeamOf(d))
           r == Logged(h[p], OdooCall("odoo_search_read", "crm.lead", 0,
                                      << "deal", h[p].deal_id >>))
       IN  \/ /\ Cardinality(rows) = 1
              /\ \E f \in rows : SetH(p, [r EXCEPT !.pc = "deal_wfound", !.oid = f])
           \/ /\ Cardinality(rows) # 1
              /\ SetH(p, [r EXCEPT !.pc = "deal_create"])
           \/ SetH(p, Finish(h[p], "error"))
    /\ UNCHANGED << world, calc, dbVars, odooVars, pdVars, surfeIssued, cb >>

\* a write of the found lead whose failure is swallowed: the id is mapped anyway
upsert_deal_write_found_swallow(p) ==
    /\ h[p].pc = "deal_wfound"
    /\ \/ /\ odooLeads' = [odooLeads EXCEPT ![h[p].oid] =
                              DealVals(pdDeals[h[p].deal_id], h[p].partner_id, @)]
          /\ SetH(p, [Logged(h[p], OdooCall("odoo_write", "crm.lead", h[p].oid, << "deal", h[p].deal_id >>))
                        EXCEPT !.pc = "deal_set"])
       \/ /\ SetH(p, [h[p] EXCEPT !.pc = "deal_set"])
          /\ UNCHANGED odooLeads
    /\ UNCHANGED << world, calc, dbVars, odooPartners, pdVars, surfeIssued, cb >>

upsert_deal_write_found(p) ==
    /\ h[p].pc = "deal_wfound"
    /\ \/ /\ odooLeads' = [odooLeads EXCEPT ![h[p].oid] =
                              DealVals(pdDeals[h[p].deal_id], h[p].partner_id, @)]
          /\ SetH(p, [Logged(h[p], OdooCall("odoo_write", "crm.lead", h[p].oid, << "deal", h[p].deal_id >>))
                        EXCEPT !.pc = "deal_set"])
       \/ /\ SetH(p, Finish(h[p], "error"))
          /\ UNCHANGED odooLeads
    /\ UNCHANGED << world, calc, dbVars, odooPartners, pdVars, surfeIssued, cb >>

upsert_deal_create(p) ==
    /\ h[p].pc = "deal_create"
    /\ \/ LET id == Len(odooLeads) + 1 IN
          /\ odooLeads' = Append(odooLeads,
                             DealVals(pdDeals[h[p].deal_id], h[p].partner_id,
                                      [name |-> "", partner_id |-> 0, team_id |-> 0,
                                       stage_id |-> 0, active |-> TRUE]))
          /\ SetH(p, [Logged(h[p], OdooCall("odoo_create", "crm.lead", id, << "deal", h[p].deal_id >>))
                        EXCEPT !.pc = "deal_set", !.oid = id])
       \/ /\ SetH(p, Finish(h[p], "error"))
          /\ UNCHANGED odooLeads
    /\ UNCHANGED << world, calc, dbVars, odooPartners, pdVars, surfeIssued, cb >>

upsert_deal_set(p) ==
    /\ h[p].pc = "deal_set"
    /\ mapping_set("deal", h[p].deal_id, h[p].oid)
    /\ SetH(p, Finish(Returned(h[p], h[p].oid), "ok"))
    /\ UNCHANGED << world, calc, events, enrich, claimed, odooVars, pdVars, surfeIssued, cb >>

HandlerStep(p) ==
    \/ pipedrive_webhook_receive(p)
    \/ pipedrive_webhook_login(p)
    \/ archive_deal_lookup(p)
    \/ archive_deal_write(p)
    \/ pipedrive_webhook_stage(p)
    \/ pipedrive_webhook_pipecheck(p)
    \/ handle_download_stage(p)
    \/ handle_leadfeeder_stage(p)
    \/ upsert_org_fetch(p)
    \/ upsert_org_write(p)
    \/ upsert_org_search(p)
    \/ upsert_org_write_found(p)
    \/ upsert_org_create(p)
    \/ upsert_org_set(p)
    \/ upsert_person_fetch(p)
    \/ upsert_person_lookup(p)
    \/ upsert_person_write(p)
    \/ upsert_person_search(p)
    \/ upsert_person_write_found(p)
    \/ upsert_person_create(p)
    \/ upsert_person_set(p)
    \/ upsert_deal_fetch(p)
    \/ upsert_deal_lookup(p)
    \/ upsert_deal_write(p)
    \/ find_existing_deal_by_partner(p)
    \/ find_existing_deal_by_name(p)
    \/ upsert_deal_write_found(p)
    \/ upsert_deal_create(p)
    \/ upsert_deal_set(p)

\* ---- the callbacks Surfe can deliver ----
NoPersonData == [emails |-> << >>, mobilePhones |-> << >>, jobTitle |-> ""]

PersonResults ==
    { NoPersonData,
      [emails |-> << [email |-> "a@orga.de", validationStatus |-> "VALID"] >>,
       mobilePhones |-> << [phone |-> "+491", confidence |-> 1],
                           [phone |-> "+492", confidence |-> 2] >>,
       jobTitle |-> "CTO"],
      [emails |-> << [email |-> "b@orga.de", validationStatus |-> "INVALID"] >>,
       mobilePhones |-> << >>, jobTitle |-> ""],
      [emails |-> << [email |-> "b@orga.de", validationStatus |-> "INVALID"],
                     [email |-> "a@orga.de", validationStatus |-> "VALID"] >>,
       mobilePhones |-> << [phone |-> "+492", confidence |-> 2] >>,
       jobTitle |-> ""] }

SurfePayloads ==
    { [token |-> SURFE_WEBHOOK_TOKEN, eventType |-> "person.enrichment.completed",
       enrichmentID |-> e, people |-> << pd >>] : e \in EnrichIds, pd \in PersonResults }
    \cup
    { [token |-> SURFE_WEBHOOK_TOKEN, eventType |-> "person.enrichment.completed",
       enrichmentID |-> 1, people |-> << >>],
      [token |-> SURFE_WEBHOOK_TOKEN, eventType |-> "person.enrichment.started",
       enrichmentID |-> 1, people |-> << NoPersonData >>],
      [token |-> "wrong", eventType |-> "person.enrichment.completed",
       enrichmentID |-> 1,
       people |-> << [emails |-> << [email |-> "a@orga.de", validationStatus |-> "VALID"] >>,
                      mobilePhones |-> << [phone |-> "+491", confidence |-> 1] >>,
                      jobTitle |-> "CTO"] >>] }

\* ---- surfe_webhook: the selections of app.py:1229-1246 ----
RECURSIVE FirstValid(_)
FirstValid(emails) ==
    IF emails = << >> THEN ""
    ELSE IF Head(emails).validationStatus = "VALID" THEN Head(emails).email
    ELSE FirstValid(Tail(emails))

\* a selection that takes the first entry whatever its validation status
SelectEmail_first(emails) == IF emails = << >> THEN "" ELSE emails[1].email

\* a selection that falls back to a made-up address
SelectEmail_default(emails) == "info@orga.de"

SelectEmail(emails) ==
    LET email == FirstValid(emails) IN
    IF email = "" /\ emails # << >> THEN emails[1].email ELSE email

\* sorted(mobiles, key=confidence, reverse=True)[0]: the first entry of highest confidence
SelectPhone(mobiles) ==
    IF mobiles = << >> THEN ""
    ELSE LET best == CHOOSE i \in DOMAIN mobiles :
                        /\ \A j \in DOMAIN mobiles : mobiles[j].confidence <= mobiles[i].confidence
                        /\ \A j \in 1..(i - 1) : mobiles[j].confidence < mobiles[i].confidence
         IN  mobiles[best].phone

HasValidEmail(emails) == \E i \in DOMAIN emails : emails[i].validationStatus = "VALID"

IdleCallback ==
    [pc |-> "idle", resp |-> "", log |-> << >>, token |-> "", eid |-> 0,
     nEmails |-> 0, hasValid |-> FALSE, raised |-> FALSE,
     deal_id |-> 0, person_id |-> 0, type |-> "", pending |-> NoPending,
     email |-> "", phone |-> "", job_title |-> "", ret |-> ""]

\* Leaving the handler: which request it was for, what it was given, what it did.
FinishCb(r, resp) ==
    [IdleCallback EXCEPT !.pc = "done", !.resp = resp, !.log = r.log,
                         !.token = r.token, !.eid = r.eid,
                         !.type = r.type, !.nEmails = r.nEmails, !.hasValid = r.hasValid,
                         !.raised = r.raised, !.email = r.email, !.phone = r.phone,
                         !.job_title = r.job_title]

SetCb(c, r) == cb' = [cb EXCEPT ![c] = r]

\* token, eventType, people, get_enrichment, and the selections
surfe_webhook_receive(c) ==
    /\ cb[c].pc = "idle"
    /\ world = "enrich"
    /\ \A q \in Callbacks : q < c => cb[q].pc = "done"
    /\ \E payload \in SurfePayloads :
         LET enrichment == get_enrichment(payload.enrichmentID)
             person_data == payload.people[1]
             r0 == [cb[c] EXCEPT !.token = payload.token]
             r == [r0 EXCEPT !.eid = payload.enrichmentID,
                                !.deal_id = enrichment.deal_id,
                                !.person_id = enrichment.person_id,
                                !.type = enrichment.type,
                                !.pending = enrichment.pending,
                                !.email = SelectEmail(person_data.emails),
                                !.nEmails = Len(person_data.emails),
                                !.hasValid = HasValidEmail(person_data.emails),
                                !.phone = SelectPhone(person_data.mobilePhones),
                                !.job_title = person_data.jobTitle,
                                !.ret = "ok"]
         IN  IF ~TokenOk(payload.token, SURFE_WEBHOOK_TOKEN)
             THEN SetCb(c, FinishCb(r0, "401"))
             ELSE IF payload.eventType # "person.enrichment.completed"
             THEN SetCb(c, FinishCb(r0, "ignored"))
             ELSE IF payload.people = << >>
             THEN SetCb(c, FinishCb([r0 EXCEPT !.eid = payload.enrichmentID], "no_results"))
             ELSE IF enrichment = NoRow
             THEN SetCb(c, FinishCb([r0 EXCEPT !.eid = payload.enrichmentID], "unknown"))
             ELSE IF r.type = "leadfeeder" /\ r.pending.present
             THEN IF r.email = ""
                  THEN SetCb(c, [r EXCEPT !.pc = "noemail_note", !.ret = "no_email"])
                  ELSE SetCb(c, [r EXCEPT !.pc = "create"])
             ELSE IF r.person_id # 0
             THEN SetCb(c, [r EXCEPT !.pc = "update"])
             ELSE SetCb(c, [r EXCEPT !.pc = "complete"])
    /\ UNCHANGED << world, calc, dbVars, odooVars, pdVars, surfeIssued, h >>

LoggedCb(r, entry) == [r EXCEPT !.log = Append(r.log, entry)]

Note(r, kind) == [op |-> "pd_add_note", deal |-> r.deal_id, kind |-> kind]

\* a no-email branch that posts nothing
surfe_webhook_noemail_note_skip(c) ==
    /\ cb[c].pc = "noemail_note"
    /\ SetCb(c, [cb[c] EXCEPT !.pc = "complete"])
    /\ UNCHANGED << world, calc, dbVars, odooVars, pdVars, surfeIssued, h >>

\* no email: pd_add_note_to_deal (app.py:1255), outside any try
surfe_webhook_noemail_note(c) ==
    /\ cb[c].pc = "noemail_note"
    /\ \/ SetCb(c, [LoggedCb(cb[c], Note(cb[c], "no_email")) EXCEPT !.pc = "complete"])
       \/ SetCb(c, FinishCb([cb[c] EXCEPT !.raised = TRUE], "error"))
    /\ UNCHANGED << world, calc, dbVars, odooVars, pdVars, surfeIssued, h >>

\* a payload without the owner
pd_create_person_no_owner(name, org_id, email, phone, owner_id, job_title) ==
    [name |-> name, org_id |-> org_id, owner_id |-> 0,
     email |-> email, phone |-> phone, job_title |-> job_title]

\* pipedrive.py pd_create_person: a field is sent only when it is truthy
pd_create_person(name, org_id, email, phone, owner_id, job_title) ==
    [name |-> name, org_id |-> org_id, owner_id |-> owner_id,
     email |-> email, phone |-> phone, job_title |-> job_title]

JobTitleOr(r) == IF r.job_title # "" THEN r.job_title ELSE r.pending.job_title

\* new_person = pd_create_person(...)
surfe_webhook_create(c) ==
    /\ cb[c].pc = "create"
    /\ \/ LET r == cb[c]
              data == pd_create_person(r.pending.name, r.pending.org_id, r.email, r.phone,
                                       r.pending.owner_id, JobTitleOr(r))
              id == Len(pdPersons) + 1
          IN  /\ pdPersons' = Append(pdPersons, data)
              /\ SetCb(c, [LoggedCb(r, [op |-> "pd_create_person", id |-> id, data |-> data])
                             EXCEPT !.pc = "link", !.person_id = id])
       \/ /\ SetCb(c, [cb[c] EXCEPT !.pc = "error_note", !.raised = TRUE])
          /\ UNCHANGED pdPersons
    /\ UNCHANGED << world, calc, dbVars, odooVars, pdDeals, pdOrgs, surfeIssued, h >>

\* pd_link_person_to_deal(deal_id, person_id)
surfe_webhook_link(c) ==
    /\ cb[c].pc = "link"
    /\ \/ /\ pdDeals' = [pdDeals EXCEPT ![cb[c].deal_id].person_id = cb[c].person_id]
          /\ SetCb(c, [LoggedCb(cb[c], [op |-> "pd_link_person_to_deal",
                                        deal |-> cb[c].deal_id, person |-> cb[c].person_id])
                         EXCEPT !.pc = "success_note"])
       \/ /\ SetCb(c, [cb[c] EXCEPT !.pc = "error_note", !.raised = TRUE])
          /\ UNCHANGED pdDeals
    /\ UNCHANGED << world, calc, dbVars, odooVars, pdPersons, pdOrgs, surfeIssued, h >>

\* the success note of app.py:1281
surfe_webhook_success_note(c) ==
    /\ cb[c].pc = "success_note"
    /\ \/ SetCb(c, [LoggedCb(cb[c], Note(cb[c], "created")) EXCEPT !.pc = "complete"])
       \/ SetCb(c, [cb[c] EXCEPT !.pc = "error_note", !.raised = TRUE])
    /\ UNCHANGED << world, calc, dbVars, odooVars, pdVars, surfeIssued, h >>

\* except Exception: pd_add_note_to_deal (app.py:1292), itself unguarded
surfe_webhook_error_note(c) ==
    /\ cb[c].pc = "error_note"
    /\ \/ SetCb(c, [LoggedCb(cb[c], Note(cb[c], "create_failed")) EXCEPT !.pc = "complete"])
       \/ SetCb(c, FinishCb([cb[c] EXCEPT !.raised = TRUE], "error"))
    /\ UNCHANGED << world, calc, dbVars, odooVars, pdVars, surfeIssued, h >>

\* pipedrive.py pd_update_person: only the truthy fields are sent, none -> no call
pd_update_person(old, email, phone, job_title) ==
    [old EXCEPT !.email = IF email # "" THEN email ELSE @,
                !.phone = IF phone # "" THEN phone ELSE @,
                !.job_title = IF job_title # "" THEN job_title ELSE @]

\* an update that always sends the discovered email
UpdateEmail_always(r) == r.email

\* update_email = email if enrichment_type != "download" else None
UpdateEmail(r) == IF r.type # "download" THEN r.email ELSE ""

\* elif person_id: pd_update_person(...), failures caught
surfe_webhook_update(c) ==
    /\ cb[c].pc = "update"
    /\ LET r == cb[c]
           update_email == UpdateEmail(r)
           sent == [email |-> update_email, phone |-> r.phone, job_title |-> r.job_title]
       IN  \/ /\ sent # [email |-> "", phone |-> "", job_title |-> ""]
              /\ pdPersons' = [pdPersons EXCEPT ![r.person_id] =
                                  pd_update_person(@, update_email, r.phone, r.job_title)]
              /\ SetCb(c, [LoggedCb(r, [op |-> "pd_update_person", id |-> r.person_id,
                                        data |-> sent])
                             EXCEPT !.pc = "complete"])
           \/ \* nothing to send, or pd_put raises (caught at app.py:1306)
              /\ SetCb(c, [r EXCEPT !.pc = "complete"])
              /\ UNCHANGED pdPersons
    /\ UNCHANGED << world, calc, dbVars, odooVars, pdDeals, pdOrgs, surfeIssued, h >>

\* complete_enrichment(enrichment_id) and the response
surfe_webhook_complete(c) ==
    /\ cb[c].pc = "complete"
    /\ complete_enrichment(cb[c].eid)
    /\ SetCb(c, FinishCb(cb[c], cb[c].ret))
    /\ UNCHANGED << world, calc, events, mapping, claimed, odooVars, pdVars, surfeIssued, h >>

CallbackStep(c) ==
    \/ surfe_webhook_receive(c)
    \/ surfe_webhook_noemail_note(c)
    \/ surfe_webhook_create(c)
    \/ surfe_webhook_link(c)
    \/ surfe_webhook_success_note(c)
    \/ surfe_webhook_error_note(c)
    \/ surfe_webhook_update(c)
    \/ surfe_webhook_complete(c)

\* ---- Init ----
\* the tables, the remote systems and the deliveries before any request
ProgramInit ==
    /\ world \in Worlds
    /\ events = {}
    /\ mapping = [k \in MappingKeys |-> IF world = "moved" THEN MovedMapping(k) ELSE 0]
    /\ enrich = [e \in EnrichIds |-> NoRow]
    /\ claimed = {}
    /\ odooPartners = IF world = "seeded" THEN SeedPartners
                      ELSE IF world = "ambiguous" THEN AmbiguousPartners
                      ELSE << >>
    /\ odooLeads = IF world = "seeded" THEN SeedLeads
                   ELSE IF world = "ambiguous" THEN AmbiguousLeads
                   ELSE IF world = "moved" THEN MovedLeads
                   ELSE << >>
    /\ pdDeals = [d \in DealIds |-> InitDeal(world, d)]
    /\ pdPersons = InitPersons
    /\ pdOrgs = InitOrgs(world)
    /\ surfeIssued = 0
    /\ h = [p \in Handlers |-> IdleHandler]
    /\ cb = [c \in Callbacks |-> IdleCallback]

NoCalc ==
    [fn |-> "", done |-> FALSE, people |-> << >>, target |-> "", best |-> 0,
     emails |-> << >>, email |-> "",
     arg |-> [kind |-> "none", n |-> 0, text |-> ""], present |-> FALSE, prob |-> 0,
     lang |-> "",
     deal |-> [status |-> "", stage_id |-> 0], old_stage |-> 0, stage |-> 0,
     callers |-> << >>, starts |-> 0, before |-> {}]

Init == ProgramInit /\ calc = NoCalc

Next ==
    \/ \E p \in Handlers : HandlerStep(p)
    \/ \E c \in Callbacks : CallbackStep(c)

Spec == Init /\ [][Next]_vars

\* Pipedrive webhooks handled one after the other: a handler takes a step only
\* while no other handler is in flight.
NextSeq ==
    \E p \in Handlers :
        /\ \A q \in Handlers \ {p} : h[q].pc \in {"idle", "done"}
        /\ HandlerStep(p)

SpecSeq == Init /\ [][NextSeq]_vars

\* ---- the Enrichment Correlation Store driven by arbitrary calls ----
\* The enrichment id is whatever the Surfe API answers (surfe.py:186, 318):
\* here save_enrichment is called with any id, a stored one included.
StoreIds == 1..MaxStoreId

StoredPending ==
    [present |-> TRUE, name |-> "Ann Lee", org_id |-> 1, org_name |-> "OrgA",
     owner_id |-> OwnerDE, job_title |-> "CISO", linkedin_url |-> "li/ann",
     domain |-> "orga.de"]

\* save_enrichment(enrichment_id, deal_id, person_id, "download") of surfe.py:188
\* or save_enrichment(enrichment_id, deal_id, None, "leadfeeder", pending) of surfe.py:320
StoreSave ==
    /\ \E e \in StoreIds, d \in DealIds, t \in {"download", "leadfeeder"} :
         IF t = "download"
         THEN save_enrichment(e, d, 1, t, NoPending)
         ELSE save_enrichment(e, d, 0, t, StoredPending)
    /\ UNCHANGED << world, calc, events, mapping, claimed, odooVars, pdVars, surfeIssued, h, cb >>

\* complete_enrichment(enrichment_id) on any id
StoreComplete ==
    /\ \E e \in StoreIds : complete_enrichment(e)
    /\ UNCHANGED << world, calc, events, mapping, claimed, odooVars, pdVars, surfeIssued, h, cb >>

NextStore ==
    \/ StoreSave
    \/ StoreComplete
    \/ \E c \in Callbacks : CallbackStep(c)

SpecStore == Init /\ [][NextStore]_vars

\* ======================================================================
\* helpers.py: pure functions, computed on strings as the code computes them
\* ======================================================================
UpperChars == "ABCDEFGHIJKLMNOPQRSTUVWXYZ"
LowerChars == "abcdefghijklmnopqrstuvwxyz"

CharAt(s, i) == SubSeq(s, i, i)

\* str.lower() on one character
LowerChar(c) ==
    IF \E i \in 1..Len(UpperChars) : CharAt(UpperChars, i) = c
    THEN CharAt(LowerChars, CHOOSE i \in 1..Len(UpperChars) : CharAt(UpperChars, i) = c)
    ELSE c

RECURSIVE Lower(_)
\* str.lower()
Lower(s) == IF s = "" THEN "" ELSE LowerChar(Head(s)) \o Lower(Tail(s))

IsSpace(c) == c \in {" ", "\t", "\n"}

RECURSIVE LStrip(_)
LStrip(s) == IF s # "" /\ IsSpace(Head(s)) THEN LStrip(Tail(s)) ELSE s

RECURSIVE RStrip(_)
RStrip(s) ==
    IF s # "" /\ IsSpace(CharAt(s, Len(s))) THEN RStrip(SubSeq(s, 1, Len(s) - 1)) ELSE s

\* str.strip()
Strip(s) == RStrip(LStrip(s))

\* old in s
Contains(s, old) ==
    \E i \in 1..(Len(s) - Len(old) + 1) : SubSeq(s, i, i + Len(old) - 1) = old

RECURSIVE Replace(_, _, _)
\* str.replace(old, new) for a non-empty old: left to right, not overlapping
Replace(s, old, new) ==
    IF Len(s) < Len(old) THEN s
    ELSE IF SubSeq(s, 1, Len(old)) = old
         THEN new \o Replace(SubSeq(s, Len(old) + 1, Len(s)), old, new)
         ELSE Head(s) \o Replace(Tail(s), old, new)

\* set(s.split()): the maximal runs of non-space characters
Words(s) ==
    { SubSeq(s, r[1], r[2]) :
        r \in { q \in (1..Len(s)) \X (1..Len(s)) :
                  /\ q[1] <= q[2]
                  /\ \A k \in q[1]..q[2] : ~IsSpace(CharAt(s, k))
                  /\ (q[1] = 1 \/ IsSpace(CharAt(s, q[1] - 1)))
                  /\ (q[2] = Len(s) \/ IsSpace(CharAt(s, q[2] + 1))) } }

\* " ".join(parts)
RECURSIVE JoinSpace(_)
JoinSpace(parts) ==
    IF parts = << >> THEN ""
    ELSE IF Len(parts) = 1 THEN parts[1]
    ELSE parts[1] \o " " \o JoinSpace(Tail(parts))

\* ---- company_name_matches (helpers.py:252-273) ----
\* .replace(" ag", "").replace(" gmbh", "").replace(" inc", "").replace(" ltd", "")
\* .replace(" co.", "").strip() of the lower-cased, stripped name
CleanCompany(name) ==
    Strip(Replace(Replace(Replace(Replace(Replace(Strip(Lower(name)),
          " ag", ""), " gmbh", ""), " inc", ""), " ltd", ""), " co.", ""))

\* person.get("company") or person.get("companyName") or ""
PersonCompany(person) ==
    IF person.company # "" THEN person.company ELSE person.companyName

company_name_matches(person, target_company) ==
    IF target_company = "" THEN TRUE
    ELSE LET target_clean == CleanCompany(target_company)
             person_company_clean == CleanCompany(PersonCompany(person))
         IN  \/ Contains(person_company_clean, target_clean)
             \/ Contains(target_clean, person_company_clean)
             \/ Words(target_clean) \cap Words(person_company_clean) # {}

\* ---- select_best_icp_person (helpers.py:276-317) ----
priority_keywords ==
    << {"ciso", "information security"},
       {"compliance"},
       {"it manager", "it director", "it leiter"},
       {"cto", "chief technology"},
       {"ceo", "chief executive", "geschäftsführer"},
       {"founder", "gründer", "owner", "inhaber"} >>

LowerAll(tags) == [i \in 1..Len(tags) |-> Lower(tags[i])]

\* keyword in job_title or keyword in " ".join(seniorities), for a keyword of the group
MatchesGroup(person, g) ==
    \E keyword \in priority_keywords[g] :
        \/ Contains(Lower(person.jobTitle), keyword)
        \/ Contains(JoinSpace(LowerAll(person.seniorities)), keyword)

\* any(s in ["c-level", "vp", "director"] for s in seniorities)
IsSenior(person) ==
    \E i \in 1..Len(person.seniorities) :
        Lower(person.seniorities[i]) \in {"c-level", "vp", "director"}

MinOf(S) == CHOOSE x \in S : \A y \in S : x <= y

\* a selector that scans the candidates first and the groups second
select_best_icp_person_by_position(people, target_company) ==
    LET kept == { i \in 1..Len(people) : company_name_matches(people[i], target_company) }
        hits == { i \in kept : \E g \in 1..Len(priority_keywords) : MatchesGroup(people[i], g) }
    IN  IF kept = {} THEN 0
        ELSE IF hits # {} THEN MinOf(hits)
        ELSE MinOf(kept)

\* the position in people of the candidate returned, 0 for None
select_best_icp_person(people, target_company) ==
    LET kept == IF target_company # ""
                THEN { i \in 1..Len(people) : company_name_matches(people[i], target_company) }
                ELSE 1..Len(people)
        groups == { g \in 1..Len(priority_keywords) :
                      \E i \in kept : MatchesGroup(people[i], g) }
        senior == { i \in kept : IsSenior(people[i]) }
    IN  IF target_company # "" /\ kept = {} THEN 0
        ELSE IF groups # {}
             THEN MinOf({ i \in kept : MatchesGroup(people[i], MinOf(groups)) })
        ELSE IF senior # {} THEN MinOf(senior)
        ELSE IF kept # {} THEN MinOf(kept)
        ELSE 0

\* ---- normalize_probability (helpers.py:37-52) ----
\* Numbers are kept in hundredths: 0.75 is 75, 55 is 5500, 100 is 10000.
Hundredths == 100

Digits == "0123456789"

IsDigit(c) == \E i \in 1..Len(Digits) : CharAt(Digits, i) = c

DigitValue(c) == (CHOOSE i \in 1..Len(Digits) : CharAt(Digits, i) = c) - 1

AllDigits(s) == \A i \in 1..Len(s) : IsDigit(CharAt(s, i))

RECURSIVE DigitsValue(_)
\* the number a string of digits denotes
DigitsValue(s) ==
    IF s = "" THEN 0 ELSE DigitsValue(SubSeq(s, 1, Len(s) - 1)) * 10 + DigitValue(CharAt(s, Len(s)))

\* the position of the first "." in s, 0 when there is none
DotAt(s) ==
    IF \E i \in 1..Len(s) : CharAt(s, i) = "."
    THEN MinOf({ i \in 1..Len(s) : CharAt(s, i) = "." })
    ELSE 0

\* float(text) for decimal literals of at most two fraction digits: surrounding
\* blanks are stripped, a sign may lead, digits must stand on at least one side
\* of the point; anything else raises ValueError (ok = FALSE)
ParseFloat(text) ==
    LET t == Strip(text)
        neg == t # "" /\ Head(t) = "-"
        u == IF t # "" /\ Head(t) \in {"-", "+"} THEN Tail(t) ELSE t
        dot == DotAt(u)
        whole == IF dot = 0 THEN u ELSE SubSeq(u, 1, dot - 1)
        frac == IF dot = 0 THEN "" ELSE SubSeq(u, dot + 1, Len(u))
        frac2 == IF Len(frac) = 0 THEN "00" ELSE IF Len(frac) = 1 THEN frac \o "0" ELSE frac
        ok == /\ AllDigits(whole) /\ AllDigits(frac)
              /\ Len(whole) + Len(frac) > 0
              /\ Len(frac) <= 2
        mag == DigitsValue(whole) * Hundredths + DigitsValue(frac2)
    IN  [ok |-> ok, n |-> IF ~ok THEN 0 ELSE IF neg THEN 0 - mag ELSE mag]

Absent == [present |-> FALSE, prob |-> 0]

\* a normalisation without the upper clamp
normalize_probability_unclamped(pd_prob) ==
    IF pd_prob.kind = "none" THEN Absent
    ELSE IF pd_prob.kind = "text" /\ ~ParseFloat(pd_prob.text).ok THEN Absent
    ELSE LET prob0 == IF pd_prob.kind = "text" THEN ParseFloat(pd_prob.text).n ELSE pd_prob.n
             prob1 == IF 0 <= prob0 /\ prob0 <= 1 * Hundredths THEN prob0 * 100 ELSE prob0
         IN  [present |-> TRUE, prob |-> IF prob1 < 0 THEN 0 ELSE prob1]

normalize_probability(pd_prob) ==
    IF pd_prob.kind = "none" THEN Absent
    ELSE IF pd_prob.kind = "text" /\ ~ParseFloat(pd_prob.text).ok THEN Absent
    ELSE LET prob0 == IF pd_prob.kind = "text" THEN ParseFloat(pd_prob.text).n ELSE pd_prob.n
             prob1 == IF 0 <= prob0 /\ prob0 <= 1 * Hundredths THEN prob0 * 100 ELSE prob0
             prob2 == IF prob1 < 0 THEN 0 ELSE prob1
             prob3 == IF prob2 > 100 * Hundredths THEN 100 * Hundredths ELSE prob2
         IN  [present |-> TRUE, prob |-> prob3]

\* ---- map_lang_to_odoo (helpers.py:13-34) ----
\* str.isalpha() on one character
IsAlpha(c) ==
    \E i \in 1..Len(UpperChars) : CharAt(UpperChars, i) = c \/ CharAt(LowerChars, i) = c

GermanValues == {"de", "deutsch", "german", "de_de", "de-de"}

EnglishValues == {"en", "englisch", "english", "en_us", "en-us", "en_gb", "en-gb"}

\* len(v) == 5 and v[2] == "_" and v[:2].isalpha() and v[3:].isalpha()
IsLangCode(v) ==
    /\ Len(v) = 5
    /\ CharAt(v, 3) = "_"
    /\ \A i \in {1, 2, 4, 5} : IsAlpha(CharAt(v, i))

NoLang == [present |-> FALSE, lang |-> ""]

\* a mapping that tests for a ready lang code before it consults the tables
map_lang_to_odoo_code_first(pd_lang_value) ==
    IF pd_lang_value.kind = "none" THEN NoLang
    ELSE LET v == Strip(pd_lang_value.text)
             vl == Lower(v)
         IN  IF v = "" THEN NoLang
             ELSE IF IsLangCode(v) THEN [present |-> TRUE, lang |-> v]
             ELSE IF vl \in GermanValues THEN [present |-> TRUE, lang |-> "de_DE"]
             ELSE IF vl \in EnglishValues THEN [present |-> TRUE, lang |-> "en_US"]
             ELSE NoLang

map_lang_to_odoo(pd_lang_value) ==
    IF pd_lang_value.kind = "none" THEN NoLang
    ELSE LET v == Strip(pd_lang_value.text)
             vl == Lower(v)
         IN  IF v = "" THEN NoLang
             ELSE IF vl \in GermanValues THEN [present |-> TRUE, lang |-> "de_DE"]
             ELSE IF vl \in EnglishValues THEN [present |-> TRUE, lang |-> "en_US"]
             ELSE IF IsLangCode(v) THEN [present |-> TRUE, lang |-> v]
             ELSE NoLang

\* ---- calls of the pure functions ----
MaxPeople == 3

Candidate(company, companyName, jobTitle, seniorities) ==
    [company |-> company, companyName |-> companyName, jobTitle |-> jobTitle,
     seniorities |-> seniorities]

\* people as the Surfe search returns them: employer in company or companyName
\* or in neither, titles in any case, seniority tags
Candidates ==
    { Candidate("OrgA GmbH", "", "Sales Rep", << >>),
      Candidate("OrgA", "", "CISO", << "C-Level" >>),
      Candidate("", "orga ag", "CEO", << "C-Level" >>),
      Candidate("Other Inc", "", "Head of Compliance", << "Director" >>),
      Candidate("", "", "Chief Technology Officer", << >>),
      Candidate("ORGA", "", "Accountant", << "VP" >>),
      Candidate("Big OrgA Holding", "", "Inhaber", << "Owner" >>) }

PeopleLists == UNION { [1..n -> Candidates] : n \in 0..MaxPeople }

TargetCompanies == {"", "OrgA GmbH", "Nobody Ltd"}

SelectCalls ==
    { [NoCalc EXCEPT !.fn = "select_best_icp_person", !.people = ps, !.target = t] :
        ps \in PeopleLists, t \in TargetCompanies }

MaxEmails == 3

\* the entries of a person's "emails" list: an address and its validation status
EmailEntries ==
    [email : {"a@orga.de", "b@orga.de", "c@orga.de"},
     validationStatus : {"VALID", "INVALID", "CATCH_ALL"}]

EmailLists == UNION { [1..n -> EmailEntries] : n \in 0..MaxEmails }

EmailCalls == { [NoCalc EXCEPT !.fn = "select_email", !.emails = es] : es \in EmailLists }

\* the largest probability handed in, in whole units; the smallest is -MaxProb
MaxProb == 150

\* what a deal's "probability" can hold: null, a number, a string
ProbArgs ==
    { [kind |-> "none", n |-> 0, text |-> ""] }
    \cup { [kind |-> "number", n |-> n, text |-> ""] :
             n \in (0 - MaxProb * Hundredths)..(MaxProb * Hundredths) }
    \cup { [kind |-> "text", n |-> 0, text |-> t] :
             t \in {"", "abc", "55", " 0.75 ", "-10", "150.5", "12a", "1.", ".5", "-", "1.2.3"} }

ProbCalls == { [NoCalc EXCEPT !.fn = "normalize_probability", !.arg = a] : a \in ProbArgs }

\* what a person's or organization's language field can hold
LangArgs ==
    { [kind |-> "none", n |-> 0, text |-> ""] }
    \cup { [kind |-> "text", n |-> 0, text |-> t] :
             t \in {"", "  ", "German", "german", "Deutsch", "de", "DE", "de_DE", "de-de",
                    "English", "englisch", "en", "en_US", "en-us", "en_GB", "en-GB", "EN_gb",
                    "fr_FR", "fr_fr", " fr_FR ", "fr-FR", "f1_FR", "fr_F1", "fr_FRx", "frXFR",
                    "french", "xyz", "5"} }

LangCalls == { [NoCalc EXCEPT !.fn = "map_lang_to_odoo", !.arg = a] : a \in LangArgs }

\* the status and stage of a deal that passed the deleted filter, and the stage
\* the crm.lead had before; stage 0 is a deal without stage_id
DealStatuses == {"open", "won", "lost"}
DealStages == {0, 25, 26, 27, 28, 65, DOWNLOAD_STAGE_ID, LEADFEEDER_STAGE_ID}
OldStages == {0, 3, 5, 9}

StageCalls ==
    { [NoCalc EXCEPT !.fn = "deal_stage", !.deal = [status |-> st, stage_id |-> sg],
                     !.old_stage = o] :
        st \in DealStatuses, sg \in DealStages, o \in OldStages }

CalcInputs == SelectCalls \cup EmailCalls \cup ProbCalls \cup LangCalls \cup StageCalls

CallSelectBest ==
    /\ calc.fn = "select_best_icp_person"
    /\ ~calc.done
    /\ calc' = [calc EXCEPT !.done = TRUE,
                            !.best = select_best_icp_person(calc.people, calc.target)]
    /\ UNCHANGED << world, dbVars, odooVars, pdVars, surfeIssued, h, cb >>

\* the email selection of surfe_webhook (app.py:1229-1237)
CallSelectEmail ==
    /\ calc.fn = "select_email"
    /\ ~calc.done
    /\ calc' = [calc EXCEPT !.done = TRUE, !.email = SelectEmail(calc.emails)]
    /\ UNCHANGED << world, dbVars, odooVars, pdVars, surfeIssued, h, cb >>

CallNormalizeProbability ==
    /\ calc.fn = "normalize_probability"
    /\ ~calc.done
    /\ calc' = [calc EXCEPT !.done = TRUE,
                            !.present = normalize_probability(calc.arg).present,
                            !.prob = normalize_probability(calc.arg).prob]
    /\ UNCHANGED << world, dbVars, odooVars, pdVars, surfeIssued, h, cb >>

CallMapLang ==
    /\ calc.fn = "map_lang_to_odoo"
    /\ ~calc.done
    /\ calc' = [calc EXCEPT !.done = TRUE,
                            !.present = map_lang_to_odoo(calc.arg).present,
                            !.lang = map_lang_to_odoo(calc.arg).lang]
    /\ UNCHANGED << world, dbVars, odooVars, pdVars, surfeIssued, h, cb >>

\* the stage a write or create of upsert_deal leaves on the crm.lead:
\* vals["stage_id"] is set only if odoo_stage_id is truthy (odoo.py:289-290)
CallDealStage ==
    /\ calc.fn = "deal_stage"
    /\ ~calc.done
    /\ LET d == [title |-> "T", status |-> calc.deal.status, pipeline_id |-> 4,
                 stage_id |-> calc.deal.stage_id, user_id |-> OwnerDE,
                 person_id |-> 0, org_id |-> 0]
           old == [name |-> "T", partner_id |-> 0, team_id |-> 1,
                   stage_id |-> calc.old_stage, active |-> TRUE]
       IN  calc' = [calc EXCEPT !.done = TRUE, !.stage = DealVals(d, 0, old).stage_id]
    /\ UNCHANGED << world, dbVars, odooVars, pdVars, surfeIssued, h, cb >>

InitFn == ProgramInit /\ world = "sync" /\ calc \in CalcInputs

NextFn ==
    \/ CallSelectBest
    \/ CallSelectEmail
    \/ CallNormalizeProbability
    \/ CallMapLang
    \/ CallDealStage

SpecFn == InitFn /\ [][NextFn]_vars

\* ======================================================================
\* The two dedup ledgers on their own: the events table (event_seen) and the
\* surfe_processed_deals table (claim_surfe_deal), called directly by
\* concurrent callers, across process restarts.  The SQLite file DB_PATH
\* outlives the process; nothing in app.py or db.py runs at import time or at
\* startup besides the definitions, and get_con only creates missing tables.
\* ======================================================================
MaxStarts == 1

LedgerEventKeys == { << "deal", "create", d, 1 >> : d \in DealIds }
ClaimPairs == DealIds \X {"download", "leadfeeder"}

\* raised: the sqlite3 exception the INSERT ended with, "" for none
NoCaller == [pc |-> "idle", op |-> "", key |-> << >>, result |-> FALSE, raised |-> ""]

SetCaller(p, r) == calc' = [calc EXCEPT !.callers[p] = r]

\* a caller enters event_seen or claim_surfe_deal: con = get_con()
LedgerCall(p) ==
    /\ calc.callers[p].pc = "idle"
    /\ \/ \E k \in LedgerEventKeys :
            SetCaller(p, [NoCaller EXCEPT !.pc = "insert", !.op = "event_seen", !.key = k])
       \/ \E k \in ClaimPairs :
            SetCaller(p, [NoCaller EXCEPT !.pc = "insert", !.op = "claim_surfe_deal", !.key = k])
    /\ UNCHANGED << world, dbVars, odooVars, pdVars, surfeIssued, h, cb >>

\* event_seen (db.py:73-83): INSERT INTO events; IntegrityError -> True
LedgerEventSeen(p) ==
    /\ calc.callers[p].pc = "insert"
    /\ calc.callers[p].op = "event_seen"
    /\ LET k == calc.callers[p].key IN
       IF event_seen(k)
       THEN /\ UNCHANGED events
            /\ SetCaller(p, [calc.callers[p] EXCEPT !.pc = "returned", !.result = TRUE,
                                                    !.raised = "IntegrityError"])
       ELSE /\ EventInsert(k)
            /\ SetCaller(p, [calc.callers[p] EXCEPT !.pc = "returned", !.result = FALSE])
    /\ UNCHANGED << world, mapping, enrich, claimed, odooVars, pdVars, surfeIssued, h, cb >>

\* a claim that inserts without a primary key to stop it
claim_surfe_deal_no_key(p) ==
    /\ calc.callers[p].pc = "insert"
    /\ calc.callers[p].op = "claim_surfe_deal"
    /\ claimed' = claimed \cup {calc.callers[p].key}
    /\ SetCaller(p, [calc.callers[p] EXCEPT !.pc = "returned", !.result = TRUE])
    /\ UNCHANGED << world, events, mapping, enrich, odooVars, pdVars, surfeIssued, h, cb >>

\* claim_surfe_deal (db.py:147-166): INSERT INTO surfe_processed_deals + commit
\* -> True; IntegrityError (the pair is there) or OperationalError (the
\* database stayed locked for the 10 s timeout, or cannot be written) -> False
claim_surfe_deal(p) ==
    /\ calc.callers[p].pc = "insert"
    /\ calc.callers[p].op = "claim_surfe_deal"
    /\ LET k == calc.callers[p].key IN
       \/ /\ k \notin claimed
          /\ claimed' = claimed \cup {k}
          /\ SetCaller(p, [calc.callers[p] EXCEPT !.pc = "returned", !.result = TRUE])
       \/ /\ k \in claimed
          /\ UNCHANGED claimed
          /\ SetCaller(p, [calc.callers[p] EXCEPT !.pc = "returned", !.result = FALSE,
                                                  !.raised = "IntegrityError"])
       \/ /\ UNCHANGED claimed
          /\ SetCaller(p, [calc.callers[p] EXCEPT !.pc = "returned", !.result = FALSE,
                                                  !.raised = "OperationalError"])
    /\ UNCHANGED << world, events, mapping, enrich, odooVars, pdVars, surfeIssued, h, cb >>

\* the process ends and starts again: requests in flight are gone, the module
\* level of app.py runs (no statement touches the database), the file stays.
\* before = the rows that were there when the process started.
ProcessStart ==
    /\ calc.starts < MaxStarts
    /\ calc' = [calc EXCEPT !.starts = @ + 1,
                            !.callers = [p \in Handlers |-> NoCaller],
                            !.before = events \cup claimed]
    /\ UNCHANGED << world, dbVars, odooVars, pdVars, surfeIssued, h, cb >>

InitLedger ==
    /\ ProgramInit
    /\ world = "sync"
    /\ calc = [NoCalc EXCEPT !.fn = "ledger", !.callers = [p \in Handlers |-> NoCaller]]

NextLedger ==
    \/ \E p \in Handlers : LedgerCall(p)
    \/ \E p \in Handlers : LedgerEventSeen(p)
    \/ \E p \in Handlers : claim_surfe_deal(p)
    \/ ProcessStart

SpecLedger == InitLedger /\ [][NextLedger]_vars

\* ======================================================================
\* Properties
\* ======================================================================
HasOp(log, op) == \E i \in DOMAIN log : log[i].op = op

\* the positions <<handler, index>> of the handlers' log entries satisfying Test
HandlerEntries(Test(_)) ==
    UNION { { << p, i >> : i \in { j \in DOMAIN h[p].log : Test(h[p].log[j]) } } : p \in Handlers }

\* the positions <<callback, index>> of the callbacks' log entries satisfying Test
CallbackEntries(Test(_)) ==
    UNION { { << c, i >> : i \in { j \in DOMAIN cb[c].log : Test(cb[c].log[j]) } } : c \in Callbacks }

\* handler p called event_seen on its delivery (the token check passed)
CalledEventSeen(p) == h[p].pc # "idle" /\ h[p].resp # "401"

\* the handlers whose event_seen call on key k returned False ("proceed")
Proceeded(k) ==
    { p \in Handlers : CalledEventSeen(p) /\ EventKey(h[p].ev) = k /\ h[p].resp # "deduped" }

CreatesFor(e) ==
    { x \in CallbackEntries(LAMBDA entry : entry.op = "pd_create_person") : cb[x[1]].eid = e }

\* C2 (as claimed): over all deliveries of the completion callback of one
\* leadfeeder request, at most one contact is created: a second delivery, after
\* the first completed the request, creates and links nothing further.
C2_SecondDeliveryCreatesNothing ==
    \A e \in EnrichIds : Cardinality(CreatesFor(e)) <= 1

\* the runs of a stage handler (download or leadfeeder) for deal d
StageRuns(d) ==
    HandlerEntries(LAMBDA entry : entry.op = "stage_handler" /\ entry.deal = d)

\* C3 (as claimed): the download/leadfeeder stage handler runs at most once per
\* deal, also when the creation webhook of the deal is delivered again under a
\* different version.
C3_StageHandlerOncePerDeal ==
    \A d \in DealIds : Cardinality(StageRuns(d)) <= 1

\* C4 (as claimed): once a mapping row holds a destination id, no step changes it.
C4_MappingNeverChanges ==
    [][\A k \in MappingKeys : mapping[k] # 0 => mapping'[k] = mapping[k]]_vars

\* the Odoo create calls made for the Pipedrive entity k = <<type, id>>
CreatesOf(k) ==
    HandlerEntries(LAMBDA entry : entry.op = "odoo_create" /\ entry.src = k)

\* C5 (as claimed): handlers working on the same unmapped entity, concurrently
\* or not, create at most one Odoo record for it.
C5_AtMostOneRecordPerEntity ==
    \A k \in MappingKeys : Cardinality(CreatesOf(k)) <= 1

\* the crm.lead create and write calls handler p made for deal d, in order
LeadCalls(p, d) ==
    SelectSeq(h[p].log, LAMBDA entry : /\ entry.op \in {"odoo_create", "odoo_write"}
                                        /\ entry.model = "crm.lead"
                                        /\ entry.src = << "deal", d >>)

\* handler p reconciled deal d into Odoo and answered ok
Reconciled(p, d) ==
    /\ h[p].pc = "done"
    /\ h[p].resp = "ok"
    /\ h[p].ev.entity = "deal"
    /\ h[p].ev.obj = d
    /\ LeadCalls(p, d) # << >>

\* C6: with the handlers run one after the other (SpecSeq), when a
\* reconciliation of deal d created the lead, it made that one call only, the
\* mapping row of d holds the created id, and every other reconciliation of
\* the same deal made exactly one write, to that id: one create, then writes,
\* never a second create, and the mapping row is the same after each run.
C6_SequentialReconcileIdempotent ==
    \A d \in DealIds : \A p \in Handlers :
        (Reconciled(p, d) /\ LeadCalls(p, d)[1].op = "odoo_create") =>
            LET id == LeadCalls(p, d)[1].id IN
            /\ Len(LeadCalls(p, d)) = 1
            /\ mapping[<< "deal", d >>] = id
            /\ \A q \in Handlers \ {p} :
                 Reconciled(q, d) =>
                     LeadCalls(q, d) = << OdooCall("odoo_write", "crm.lead", id, << "deal", d >>) >>

\* one deal was reconciled twice: the first run created the lead, the second wrote it
C6_Witness ==
    \E d \in DealIds : \E p, q \in Handlers :
        /\ p # q
        /\ Reconciled(p, d) /\ Reconciled(q, d)
        /\ LeadCalls(p, d)[1].op = "odoo_create"
        /\ LeadCalls(q, d)[1].op = "odoo_write"
        /\ h[p].ev.ver # h[q].ev.ver

\* callback c handles a stored leadfeeder request whose contact is still pending
ForPendingLeadfeeder(c) ==
    /\ cb[c].eid # 0
    /\ cb[c].type = "leadfeeder"
    /\ enrich[cb[c].eid].pending.present

C8_EmailCreateLinkNote ==
    \A c \in Callbacks :
        (ForPendingLeadfeeder(c) /\ cb[c].email # "" /\ cb[c].pc = "done" /\ ~cb[c].raised) =>
            LET row == enrich[cb[c].eid]
                log == cb[c].log
            IN  /\ Len(log) = 3
                /\ log[1].op = "pd_create_person"
                /\ log[1].data = [name |-> row.pending.name,
                                  org_id |-> row.pending.org_id,
                                  owner_id |-> row.pending.owner_id,
                                  email |-> cb[c].email,
                                  phone |-> cb[c].phone,
                                  job_title |-> IF cb[c].job_title # "" THEN cb[c].job_title
                                                ELSE row.pending.job_title]
                /\ log[1].id \in DOMAIN pdPersons
                /\ pdPersons[log[1].id] = log[1].data
                /\ log[2] = [op |-> "pd_link_person_to_deal", deal |-> row.deal_id,
                             person |-> log[1].id]
                /\ log[3] = [op |-> "pd_add_note", deal |-> row.deal_id, kind |-> "created"]
                /\ row.status = "completed"
                /\ cb[c].resp = "ok"

\* a callback with an email was answered after create, link and note, the job
\* title taken from the stored payload
C8_Witness ==
    \E c \in Callbacks :
        /\ ForPendingLeadfeeder(c)
        /\ cb[c].pc = "done"
        /\ ~cb[c].raised
        /\ cb[c].email # ""
        /\ cb[c].job_title = ""
        /\ Len(cb[c].log) = 3
        /\ cb[c].log[1].data.owner_id # 0
        /\ cb[c].log[1].data.job_title # ""

\* C9: no step of the Pipedrive webhook handler (the leadfeeder stage handler
\* included) adds or changes a Pipedrive contact; when the leadfeeder stage
\* handler stores a request it stores the selected person's attributes as the
\* pending payload, with no contact id; and a contact is added only by the
\* completion callback of a stored leadfeeder request with that payload, and
\* only when the callback yielded an email.
C9_ContactCreatedOnlyByCallback ==
    [][ /\ \A p \in Handlers : h'[p] # h[p] => pdPersons' = pdPersons
        /\ \A p \in Handlers :
             (h[p].pc = "leadfeeder" /\ h'[p] # h[p] /\ enrich' # enrich) =>
                 \E e \in EnrichIds :
                     /\ enrich[e] = NoRow
                     /\ enrich'[e].status = "pending"
                     /\ enrich'[e].type = "leadfeeder"
                     /\ enrich'[e].deal_id = h[p].deal_id
                     /\ enrich'[e].person_id = 0
                     /\ enrich'[e].pending.present
                     /\ \E b \in BestPersons :
                          /\ enrich'[e].pending.name = FullName(b)
                          /\ enrich'[e].pending.job_title = b.jobTitle
                          /\ enrich'[e].pending.linkedin_url = b.linkedInUrl
                     /\ enrich'[e].pending.org_id = pdDeals[h[p].deal_id].org_id
                     /\ enrich'[e].pending.owner_id = pdDeals[h[p].deal_id].user_id
        /\ Len(pdPersons') > Len(pdPersons) =>
             \E c \in Callbacks :
                 /\ cb'[c] # cb[c]
                 /\ ForPendingLeadfeeder(c)
                 /\ cb[c].email # ""
      ]_vars

\* the leadfeeder stage handler stored a request and created nothing; the
\* contact was created later by that request's callback
C9_Witness ==
    \E p \in Handlers, c \in Callbacks :
        /\ HasOp(h[p].log, "save_enrichment")
        /\ \E i \in DOMAIN h[p].log :
             h[p].log[i].op = "stage_handler" /\ h[p].log[i].kind = "leadfeeder"
        /\ ForPendingLeadfeeder(c)
        /\ HasOp(cb[c].log, "pd_create_person")
        /\ Len(pdPersons) > Len(InitPersons)

\* C10 (as claimed): a callback without an email entry of validationStatus
\* VALID (only non-VALID entries included) creates no contact.
C10_NoValidEmailNoContact ==
    \A c \in Callbacks :
        (cb[c].eid # 0 /\ ~cb[c].hasValid) => ~HasOp(cb[c].log, "pd_create_person")

\* C10 (amended): a callback whose person carries no email entry at all creates
\* no contact.
C10_NoEmailEntryNoContact ==
    \A c \in Callbacks :
        (cb[c].eid # 0 /\ cb[c].nEmails = 0) => ~HasOp(cb[c].log, "pd_create_person")

\* a callback without any email entry was processed to the end for a pending
\* leadfeeder request
C10_Witness ==
    \E c \in Callbacks :
        /\ ForPendingLeadfeeder(c)
        /\ cb[c].nEmails = 0
        /\ cb[c].pc = "done"
        /\ enrich[cb[c].eid].status = "completed"

\* C11 (as claimed): once the row of an enrichment id has status completed, no
\* save_enrichment, complete_enrichment or callback step puts it back to
\* pending (or removes it).
C11_CompletedIsTerminal ==
    [][\A e \in EnrichIds :
          (enrich[e] # NoRow /\ enrich[e].status = "completed") =>
              (enrich'[e] # NoRow /\ enrich'[e].status = "completed")]_vars

\* C12 (as claimed): the deal_id and person_id of a stored row never change,
\* whatever save_enrichment, complete_enrichment or callback step follows.
C12_DealAndPersonNeverChange ==
    [][\A e \in EnrichIds :
          enrich[e] # NoRow =>
              /\ enrich'[e] # NoRow
              /\ enrich'[e].deal_id = enrich[e].deal_id
              /\ enrich'[e].person_id = enrich[e].person_id]_vars

\* C13: a completion callback whose enrichment id has no row in the store is a
\* no-op: in the one step that handles it no Pipedrive call is logged, no
\* Pipedrive record and no store row is added or changed, and the handler
\* answers with an acknowledgment (unknown, or no_results when the payload has
\* no people) rather than an error.
C13_UnknownIdIsNoOp ==
    [][\A c \in Callbacks :
          (/\ cb[c].pc = "idle"
           /\ cb'[c] # cb[c]
           /\ cb'[c].eid # 0
           /\ enrich[cb'[c].eid] = NoRow) =>
              /\ cb'[c].pc = "done"
              /\ cb'[c].resp \in {"unknown", "no_results"}
              /\ cb'[c].log = << >>
              /\ UNCHANGED << events, mapping, enrich, claimed, odooVars, pdVars >>]_vars

\* a callback for an id without a row was answered "unknown" while the store
\* holds another request
C13_Witness ==
    \E c \in Callbacks :
        /\ cb[c].pc = "done"
        /\ cb[c].resp = "unknown"
        /\ cb[c].eid # 0
        /\ enrich[cb[c].eid] = NoRow
        /\ \E e \in EnrichIds : enrich[e] # NoRow

\* the pd_update_person calls callback c made
UpdatesOf(c) == SelectSeq(cb[c].log, LAMBDA entry : entry.op = "pd_update_person")

\* C14: the update a callback sends for a download request never carries an
\* email, whatever emails the enrichment result holds (only phone and job
\* title are sent), and the existing contact keeps the email it had.
C14_DownloadUpdateHasNoEmail ==
    \A c \in Callbacks :
        (cb[c].eid # 0 /\ cb[c].type = "download") =>
            /\ \A i \in DOMAIN UpdatesOf(c) :
                 /\ UpdatesOf(c)[i].data.email = ""
                 /\ UpdatesOf(c)[i].id = enrich[cb[c].eid].person_id
                 /\ UpdatesOf(c)[i].data.phone = cb[c].phone
                 /\ UpdatesOf(c)[i].data.job_title = cb[c].job_title
            /\ pdPersons[enrich[cb[c].eid].person_id].email
                 = InitPersons[enrich[cb[c].eid].person_id].email

\* a download request was completed by a callback that carried an email and a
\* phone: the update was sent, with the phone
C14_Witness ==
    \E c \in Callbacks :
        /\ cb[c].pc = "done"
        /\ cb[c].type = "download"
        /\ cb[c].email # ""
        /\ Len(UpdatesOf(c)) = 1
        /\ UpdatesOf(c)[1].data.phone # ""
        /\ pdPersons[UpdatesOf(c)[1].id].phone = UpdatesOf(c)[1].data.phone

\* C15 (as claimed): a webhook whose reconciliation met a failing remote call
\* is still answered with an acknowledgment: no handler ends in an error.
C15_FailureStillAcknowledged ==
    \A p \in Handlers : h[p].pc = "done" => h[p].resp # "error"

\* C16: for a deal create event, every step of the enrichment stage trigger
\* (the deal fetch, the download or leadfeeder stage handler with its searches,
\* enrichment request and notes, any of which may fail) either stays in the
\* trigger or goes on to upsert_deal for the same deal; the webhook ends
\* without upsert_deal only when the fetched deal is in a Surfe-only
\* pipeline, and never with an error.
C16_StageFailureNeverBlocksReconcile ==
    [][\A p \in Handlers :
          (h[p].pc \in {"stage", "download", "leadfeeder"} /\ h'[p] # h[p]) =>
              \/ h[p].pc = "stage" /\ h'[p].pc \in {"download", "leadfeeder"}
              \/ h'[p].pc = "deal_fetch" /\ h'[p].deal_id = h[p].deal_id
              \/ /\ h'[p].pc = "done"
                 /\ h'[p].resp = "ok"
                 /\ pdDeals[h[p].deal_id].pipeline_id \in SURFE_ONLY_PIPELINES]_vars

\* a create webhook of a deal in a Surfe stage whose stage handler stored no
\* request and posted no note (its calls failed) went on and created the lead
C16_Witness ==
    \E p \in Handlers :
        /\ IsCreateAction(h[p].ev.action)
        /\ h[p].pc = "done"
        /\ h[p].resp = "ok"
        /\ h[p].log # << >>
        /\ h[p].log[1].op = "stage_handler"
        /\ ~HasOp(h[p].log, "save_enrichment")
        /\ ~HasOp(h[p].log, "pd_add_note")
        /\ \E i \in DOMAIN h[p].log :
             /\ h[p].log[i].op = "odoo_create"
             /\ h[p].log[i].src = << "deal", h[p].ev.obj >>

\* C17 (as claimed): a handler writes to a record it found by search only when
\* that record is the only match: with several companies of the name, several
\* partners of the email, or several leads of the title and partner, it writes
\* to none of them (and creates a new record).
C17_AmbiguousMatchNotWritten ==
    \A p \in Handlers :
        /\ h[p].pc = "org_wfound" =>
             Cardinality(PartnerByName(pdOrgs[h[p].org_id].name)) <= 1
        /\ h[p].pc = "per_wfound" =>
             Cardinality(PartnerByEmail(pdPersons[h[p].person_id].email)) <= 1
        /\ h[p].pc = "deal_wfound" =>
             Cardinality(LeadByNamePartner(pdDeals[h[p].deal_id].title, h[p].partner_id,
                                           TeamOf(pdDeals[h[p].deal_id]))) <= 1

\* C18: a request to either webhook whose token differs from the configured
\* one is answered 401 in the step that receives it, before any processing:
\* no call is logged, no event key is inserted, no table and no Odoo or
\* Pipedrive record is read into the handler or changed.
C18_BadTokenRejected ==
    [][/\ \A p \in Handlers :
            (h[p].pc = "idle" /\ h'[p] # h[p] /\ h'[p].ev.token # WEBHOOK_TOKEN) =>
                /\ h'[p] = [IdleHandler EXCEPT !.pc = "done", !.resp = "401", !.ev = h'[p].ev]
                /\ UNCHANGED << events, mapping, enrich, claimed, odooVars, pdVars, surfeIssued >>
       /\ \A c \in Callbacks :
            (cb[c].pc = "idle" /\ cb'[c] # cb[c] /\ cb'[c].token # SURFE_WEBHOOK_TOKEN) =>
                /\ cb'[c] = [IdleCallback EXCEPT !.pc = "done", !.resp = "401",
                                                 !.token = cb'[c].token]
                /\ UNCHANGED << events, mapping, enrich, claimed, odooVars, pdVars, surfeIssued >>
      ]_vars

\* both endpoints rejected a request with a wrong token: the Pipedrive one a
\* creation event that was never delivered otherwise (its key is not in the
\* ledger), the Surfe one a callback for a request that is stored and pending
C18_Witness ==
    \E p \in Handlers, c \in Callbacks :
        /\ h[p].resp = "401"
        /\ h[p].ev.token # WEBHOOK_TOKEN
        /\ EventKey(h[p].ev) \notin events
        /\ cb[c].resp = "401"
        /\ cb[c].token # SURFE_WEBHOOK_TOKEN
        /\ enrich[1] # NoRow
        /\ enrich[1].status = "pending"

\* the mapping_set call a handler is about to make: its key and its value
PendingSet(r) ==
    IF r.pc = "org_set" THEN << << "org", r.org_id >>, r.oid >>
    ELSE IF r.pc = "per_set" THEN << << "person", r.person_id >>, r.oid >>
    ELSE IF r.pc = "deal_set" THEN << << "deal", r.deal_id >>, r.oid >>
    ELSE << << "none", 0 >>, 0 >>

\* C19: every mapping_set(key, d) step leaves mapping_get(key) = d, and it is
\* the only kind of step that changes what mapping_get returns, and only for
\* its own key: sets on other keys do not disturb a stored id, and a key that
\* was never set still returns absent (0, the value of every key initially).
C19_GetReturnsWhatWasSet ==
    [][/\ \A p \in Handlers :
            (h'[p] # h[p] /\ PendingSet(h[p])[1][1] # "none") =>
                /\ PendingSet(h[p])[1] \in MappingKeys
                /\ PendingSet(h[p])[2] # 0
                /\ \A k \in MappingKeys :
                       IF k = PendingSet(h[p])[1]
                       THEN mapping_get(k[1], k[2])' = PendingSet(h[p])[2]
                       ELSE mapping_get(k[1], k[2])' = mapping_get(k[1], k[2])
       /\ (\A p \in Handlers : h'[p] # h[p] => PendingSet(h[p])[1][1] = "none") =>
              \A k \in MappingKeys : mapping_get(k[1], k[2])' = mapping_get(k[1], k[2])
      ]_vars

\* a set on one key took place while another key held a stored id and a third
\* key had never been set
C19_Witness ==
    \E p \in Handlers :
        /\ h[p].pc = "deal_set"
        /\ mapping_get("deal", h[p].deal_id) # 0
        /\ mapping_get("deal", h[p].deal_id) # h[p].oid
        /\ mapping_get("org", 1) # 0
        /\ mapping_get("person", 2) = 0

\* the entries a step appended to a handler's call log
Appended(old, new) == SubSeq(new.log, Len(old.log) + 1, Len(new.log))

IsGuess(e) == e.op = "guess_company_domain"

IsSearch(e) == e.op = "search_company_domain"

\* C20: in the leadfeeder stage handler the domain strategies run in order and
\* stop at the first success: when the organization's website yields a domain
\* neither guess_company_domain nor search_company_domain is invoked; the
\* guess is invoked at most once and before any search; and the search is
\* invoked only directly after a guess that returned nothing.
C20_DomainStrategiesInOrder ==
    [][\A p \in Handlers :
          (h[p].pc = "leadfeeder" /\ h'[p] # h[p]) =>
              LET new == Appended(h[p], h'[p])
                  site == IF h[p].org_id = 0 THEN ""
                          ELSE extract_domain_from_website(pdOrgs[h[p].org_id].website)
              IN  /\ site # "" =>
                        \A i \in 1..Len(new) : ~IsGuess(new[i]) /\ ~IsSearch(new[i])
                  /\ \A i \in 1..Len(new) :
                        IsGuess(new[i]) =>
                            \A j \in 1..(i - 1) : ~IsGuess(new[j]) /\ ~IsSearch(new[j])
                  /\ \A i \in 1..Len(new) :
                        IsSearch(new[i]) =>
                            /\ i > 1
                            /\ IsGuess(new[i - 1])
                            /\ new[i - 1].result = ""
      ]_vars

\* one handler found no website, guessed in vain and found the domain by web
\* search, which it saved to the organization; a later handler for the same
\* organization then stored an enrichment request without guessing or searching
C20_Witness ==
    \E p, q \in Handlers :
        /\ p # q
        /\ \E i \in 1..Len(h[p].log) :
               /\ IsSearch(h[p].log[i])
               /\ h[p].log[i].result # ""
               /\ IsGuess(h[p].log[i - 1])
               /\ h[p].log[i - 1].result = ""
        /\ \E i \in 1..Len(h[p].log) :
               h[p].log[i].op = "pd_update_org" /\ h[p].log[i].ok
        /\ HasOp(h[q].log, "stage_handler")
        /\ HasOp(h[q].log, "save_enrichment")
        /\ \A i \in 1..Len(h[q].log) : ~IsGuess(h[q].log[i]) /\ ~IsSearch(h[q].log[i])

IsWriteBack(e) == e.op = "pd_update_org"

IsPeopleSearch(e) == e.op = "surfe_search_people"

\* C21: in the leadfeeder stage handler pd_update_org is called for the
\* organization exactly when guess_company_domain or search_company_domain
\* returned a domain, and with that domain; a domain read from the website
\* field triggers no update and leaves the organization as it was; and whether
\* the update succeeds or raises, surfe_search_people is called after it.
C21_DiscoveredDomainWrittenBack ==
    [][\A p \in Handlers :
          (h[p].pc = "leadfeeder" /\ h'[p] # h[p]) =>
              LET new == Appended(h[p], h'[p])
                  site == IF h[p].org_id = 0 THEN ""
                          ELSE extract_domain_from_website(pdOrgs[h[p].org_id].website)
                  found == { i \in 1..Len(new) :
                               (IsGuess(new[i]) \/ IsSearch(new[i])) /\ new[i].result # "" }
                  writes == { i \in 1..Len(new) : IsWriteBack(new[i]) }
              IN  /\ (writes # {}) <=> (found # {})
                  /\ site # "" => writes = {} /\ pdOrgs' = pdOrgs
                  /\ \A i \in writes :
                        /\ \E j \in found :
                              j < i /\ new[i].website = WebsiteOf(new[j].result)
                        /\ new[i].org = h[p].org_id
                        /\ \E k \in (i + 1)..Len(new) : IsPeopleSearch(new[k])
                        /\ new[i].ok =>
                              pdOrgs' = [pdOrgs EXCEPT ![h[p].org_id].website = new[i].website]
                        /\ ~new[i].ok => pdOrgs' = pdOrgs
                  /\ writes = {} => pdOrgs' = pdOrgs
      ]_vars

\* one handler guessed a domain, failed to save it and still searched people
\* and stored an enrichment request; a later handler found the website still
\* empty, discovered a domain again and saved it to the organization
C21_Witness ==
    \E p, q \in Handlers :
        /\ p # q
        /\ \E i \in 1..Len(h[p].log) :
               /\ IsWriteBack(h[p].log[i])
               /\ ~h[p].log[i].ok
               /\ IsPeopleSearch(h[p].log[i + 1])
        /\ HasOp(h[p].log, "save_enrichment")
        /\ \E i \in 1..Len(h[q].log) :
               /\ IsWriteBack(h[q].log[i])
               /\ h[q].log[i].ok
               /\ pdOrgs[h[q].log[i].org].website = h[q].log[i].website

SelectDone == calc.fn = "select_best_icp_person" /\ calc.done

\* the candidates of the call that pass the employer filter
Remaining == { i \in 1..Len(calc.people) : company_name_matches(calc.people[i], calc.target) }

\* the keyword groups some remaining candidate matches
GroupsHit == { g \in 1..Len(priority_keywords) :
                 \E i \in Remaining : MatchesGroup(calc.people[i], g) }

\* C22: when some candidate that passes the employer filter matches a keyword
\* group, select_best_icp_person returns a remaining candidate of the
\* highest-priority group matched, and no remaining candidate earlier in the
\* list matches that group; for [Sales Rep, CISO, CEO] at the target company it
\* returns the CISO.
C22_HighestGroupFirstInOrder ==
    SelectDone =>
        /\ GroupsHit # {} =>
              /\ calc.best \in Remaining
              /\ MatchesGroup(calc.people[calc.best], MinOf(GroupsHit))
              /\ \A i \in Remaining :
                    i < calc.best => ~MatchesGroup(calc.people[i], MinOf(GroupsHit))
        /\ (/\ Len(calc.people) = 3
            /\ calc.target = "OrgA GmbH"
            /\ calc.people[1].jobTitle = "Sales Rep"
            /\ calc.people[2].jobTitle = "CISO"
            /\ calc.people[3].jobTitle = "CEO") => calc.best = 2

\* a call where a lower-priority candidate (the owner) precedes two security
\* and compliance candidates of which only the later one passes the filter
C22_Witness ==
    /\ SelectDone
    /\ calc.target = "OrgA GmbH"
    /\ Len(calc.people) = 3
    /\ calc.people[1].jobTitle = "Inhaber"
    /\ calc.people[2].jobTitle = "Head of Compliance"
    /\ calc.people[3].jobTitle = "CISO"
    /\ calc.best = 3

\* the employer name of a candidate, given and matching the target
EmployerMatches(person, target_company) ==
    PersonCompany(person) # "" /\ company_name_matches(person, target_company)

\* C23: for a non-empty target name select_best_icp_person returns absent when
\* no candidate's employer name matches the target, and a candidate it returns
\* has an employer name that matches the target.
C23_NeverAnUnrelatedCandidate ==
    (SelectDone /\ calc.target # "") =>
        /\ (\A i \in 1..Len(calc.people) : ~EmployerMatches(calc.people[i], calc.target))
               => calc.best = 0
        /\ calc.best # 0 => EmployerMatches(calc.people[calc.best], calc.target)

ValidEntries(emails) == { i \in 1..Len(emails) : emails[i].validationStatus = "VALID" }

\* C24: the email chosen from an enrichment result is the address of the first
\* entry marked VALID when some entry is so marked, otherwise the address of
\* the first entry of the list, otherwise none.
C24_FirstValidElseFirstElseNone ==
    (calc.fn = "select_email" /\ calc.done) =>
        IF ValidEntries(calc.emails) # {}
        THEN calc.email = calc.emails[MinOf(ValidEntries(calc.emails))].email
        ELSE IF calc.emails # << >> THEN calc.email = calc.emails[1].email
        ELSE calc.email = ""

\* a list whose first entry is not valid and whose second and third are: the
\* second entry's address is chosen
C24_Witness ==
    /\ calc.fn = "select_email"
    /\ calc.done
    /\ Len(calc.emails) = 3
    /\ ValidEntries(calc.emails) = {2, 3}
    /\ calc.emails[1].email = "a@orga.de"
    /\ calc.emails[2].email = "b@orga.de"
    /\ calc.emails[3].email = "c@orga.de"
    /\ calc.email = "b@orga.de"

NormalizeDone == calc.fn = "normalize_probability" /\ calc.done

\* the call's argument is a number or a string that denotes one
IsNumeric(a) == a.kind = "number" \/ (a.kind = "text" /\ ParseFloat(a.text).ok)

\* the number the argument denotes, in hundredths
NumberOf(a) == IF a.kind = "number" THEN a.n ELSE ParseFloat(a.text).n

MapLangDone == calc.fn = "map_lang_to_odoo" /\ calc.done

\* the argument trimmed and lower-cased, "" for a missing argument
LangKey == IF calc.arg.kind = "text" THEN Lower(Strip(calc.arg.text)) ELSE ""

IsGermanName == LangKey \in {"de", "deutsch", "german", "de_de", "de-de"}

IsEnglishName == LangKey \in {"en", "englisch", "english", "en_us", "en-us", "en_gb", "en-gb"}

\* two letters, underscore, two letters
HasCodeShape(v) ==
    /\ Len(v) = 5
    /\ SubSeq(v, 3, 3) = "_"
    /\ \A i \in {1, 2, 4, 5} : IsAlpha(SubSeq(v, i, i))

\* C26 as stated: German names give de_DE, English names (en-GB included) give
\* en_US, every value of the shape xx_XX is returned unchanged, every other
\* value gives absent, and a result is absent or of the shape xx_XX.
C26_AnyCodeShapedValueUnchanged ==
    MapLangDone =>
        /\ (IsGermanName /\ ~HasCodeShape(calc.arg.text)) =>
              calc.present /\ calc.lang = "de_DE"
        /\ (IsEnglishName /\ ~HasCodeShape(calc.arg.text)) =>
              calc.present /\ calc.lang = "en_US"
        /\ (calc.arg.kind = "text" /\ HasCodeShape(calc.arg.text)) =>
              calc.present /\ calc.lang = calc.arg.text
        /\ calc.present => HasCodeShape(calc.lang)

\* C26, with the tables first: German names give de_DE and English names
\* (en-GB, and also the codes en_GB, en_us, de_de in any case) give en_US or
\* de_DE; a value of the shape xx_XX that is none of these names is returned
\* unchanged (trimmed); every other value gives absent; so a result is absent
\* or of the shape xx_XX.
C26_NamesThenCodeShapedValues ==
    MapLangDone =>
        /\ IsGermanName => calc.present /\ calc.lang = "de_DE"
        /\ IsEnglishName => calc.present /\ calc.lang = "en_US"
        /\ (/\ ~IsGermanName /\ ~IsEnglishName
            /\ calc.arg.kind = "text"
            /\ HasCodeShape(Strip(calc.arg.text))) =>
              calc.present /\ calc.lang = Strip(calc.arg.text)
        /\ (/\ ~IsGermanName /\ ~IsEnglishName
            /\ (calc.arg.kind = "none" \/ ~HasCodeShape(Strip(calc.arg.text)))) =>
              ~calc.present
        /\ calc.present => HasCodeShape(calc.lang)

\* the call map_lang_to_odoo("en_GB"): a value of the shape xx_XX that the
\* English table maps to en_US
C26_Witness ==
    /\ MapLangDone
    /\ calc.arg.text = "en_GB"
    /\ calc.present
    /\ calc.lang = "en_US"

\* C27: once the handler has finished a person.enrichment.completed callback
\* for an enrichment id that was stored when the callback arrived, that
\* request's status is completed, whatever the callback carried (an empty
\* people list included).
C27_ProcessedCallbackCompletes ==
    \A c \in Callbacks :
        (/\ cb[c].pc = "done"
         /\ cb[c].resp \notin {"401", "ignored", "unknown"}
         /\ cb[c].eid \in EnrichIds
         /\ enrich[cb[c].eid] # NoRow) =>
            enrich[cb[c].eid].status = "completed"

\* the Odoo calls a step appended to a handler's log
NewCalls(p) == Appended(h[p], h'[p])

Failed(p) == h'[p].pc = "done" /\ h'[p].resp = "error"

\* C28: upsert_deal resolves the crm.lead in a fixed order. (a) A mapped deal
\* is written at the mapped id, with no search and no create. (b) An unmapped
\* deal is searched by name + partner (+ team) when it has a partner, and a
\* match is taken; else by name (+ team), and the match is taken only when it
\* is the only one; the record found is written and then stored in the
\* mapping. (c) Otherwise a record is created and stored in the mapping. A
\* name-only search with two or more matches never leads to a write.
C28_DealResolutionOrder ==
    [][\A p \in Handlers : h'[p] # h[p] =>
          LET d == pdDeals[h[p].deal_id]
              mapped == mapping_get("deal", h[p].deal_id)
              byPartner == LeadByNamePartner(d.title, h[p].partner_id, TeamOf(d))
              byName == LeadByName(d.title, TeamOf(d))
          IN
          /\ h[p].pc = "deal_mget" =>
                /\ mapped # 0 => h'[p].pc = "deal_write" /\ h'[p].oid = mapped
                /\ mapped = 0 =>
                      h'[p].pc = IF h[p].partner_id # 0 THEN "deal_find1" ELSE "deal_find2"
                /\ NewCalls(p) = << >>
                /\ UNCHANGED << odooLeads, mapping >>
          /\ h[p].pc = "deal_write" =>
                /\ h'[p].pc = "done"
                /\ UNCHANGED mapping
                /\ Len(odooLeads') = Len(odooLeads)
                /\ \A i \in DOMAIN odooLeads : i # h[p].oid => odooLeads'[i] = odooLeads[i]
                /\ ~Failed(p) =>
                      /\ Len(NewCalls(p)) = 2
                      /\ NewCalls(p)[1].op = "odoo_write"
                      /\ NewCalls(p)[1].id = h[p].oid
                      /\ NewCalls(p)[2].op = "upsert_deal_return"
                      /\ NewCalls(p)[2].value = h[p].oid
          /\ (h[p].pc = "deal_find1" /\ ~Failed(p)) =>
                /\ byPartner # {} => h'[p].pc = "deal_wfound" /\ h'[p].oid \in byPartner
                /\ byPartner = {} => h'[p].pc = "deal_find2"
                /\ UNCHANGED << odooLeads, mapping >>
          /\ (h[p].pc = "deal_find2" /\ ~Failed(p)) =>
                /\ Cardinality(byName) = 1 =>
                      h'[p].pc = "deal_wfound" /\ h'[p].oid \in byName
                /\ Cardinality(byName) # 1 => h'[p].pc = "deal_create"
                /\ UNCHANGED << odooLeads, mapping >>
          /\ (h[p].pc = "deal_wfound" /\ ~Failed(p)) =>
                /\ h'[p].pc = "deal_set" /\ h'[p].oid = h[p].oid
                /\ Len(odooLeads') = Len(odooLeads)
                /\ \A i \in DOMAIN odooLeads : i # h[p].oid => odooLeads'[i] = odooLeads[i]
                /\ NewCalls(p)[1].op = "odoo_write" /\ NewCalls(p)[1].id = h[p].oid
          /\ (h[p].pc = "deal_create" /\ ~Failed(p)) =>
                /\ h'[p].pc = "deal_set" /\ h'[p].oid = Len(odooLeads) + 1
                /\ Len(odooLeads') = Len(odooLeads) + 1
                /\ \A i \in DOMAIN odooLeads : odooLeads'[i] = odooLeads[i]
                /\ NewCalls(p)[1].op = "odoo_create"
          /\ h[p].pc = "deal_set" =>
                /\ \A k \in {h[p].deal_id} : mapping_get("deal", k)' = h[p].oid
                /\ UNCHANGED odooLeads
      ]_vars

\* a deal whose title two crm.leads of other partners carry: the name + partner
\* search found nothing, the name-only search found both, and the handler is
\* about to create a third record, while the other handler took the
\* name + partner match of its deal
C28_Witness ==
    \E p, q \in Handlers :
        /\ h[p].pc = "deal_create"
        /\ LeadByNamePartner(pdDeals[h[p].deal_id].title, h[p].partner_id,
                             TeamOf(pdDeals[h[p].deal_id])) = {}
        /\ Cardinality(LeadByName(pdDeals[h[p].deal_id].title,
                                  TeamOf(pdDeals[h[p].deal_id]))) >= 2
        /\ h[q].pc = "deal_wfound"
        /\ h[q].partner_id # 0
        /\ h[q].oid \in LeadByNamePartner(pdDeals[h[q].deal_id].title, h[q].partner_id,
                                          TeamOf(pdDeals[h[q].deal_id]))

IsOdooCall(e) == e.op \in {"odoo_search", "odoo_search_read", "odoo_create", "odoo_write"}

\* the handler's upsert_deal handed back the skipped sentinel
ReturnedSkipped(r) ==
    /\ r.pc = "done"
    /\ r.log # << >>
    /\ r.log[Len(r.log)].op = "upsert_deal_return"
    /\ r.log[Len(r.log)].value = -1

NoOdooCalls(r) == \A i \in 1..Len(r.log) : ~IsOdooCall(r.log[i])

\* C29: when the deal fetched by upsert_deal has status deleted, or has no
\* pipeline, or a pipeline outside PIPELINE_MAP, upsert_deal returns -1; the
\* handler has made no Odoo search, create or write call, for the deal or for
\* its person or organization, and the mapping and the Odoo records are as
\* they were.
C29_FilteredDealTouchesNothing ==
    [][\A p \in Handlers :
          (/\ h[p].pc = "deal_fetch"
           /\ h'[p] # h[p]
           /\ ~Failed(p)
           /\ LET d == pdDeals[h[p].deal_id] IN
                \/ d.status = "deleted"
                \/ d.pipeline_id = 0
                \/ d.pipeline_id \notin DOMAIN PIPELINE_MAP) =>
              /\ ReturnedSkipped(h'[p])
              /\ NoOdooCalls(h'[p])
              /\ UNCHANGED << mapping, odooPartners, odooLeads >>
      ]_vars

\* both skipped deals were handled: the deleted deal with its linked person and
\* the deal without pipeline; nothing was mapped or written
C29_Witness ==
    /\ world = "skipped"
    /\ \E p, q \in Handlers :
          /\ h[p].ev.obj = 1 /\ ReturnedSkipped(h[p])
          /\ h[q].ev.obj = 2 /\ ReturnedSkipped(h[q])
    /\ pdDeals[1].status = "deleted" /\ pdDeals[1].person_id # 0
    /\ pdDeals[2].pipeline_id = 0
    /\ \A k \in MappingKeys : mapping[k] = 0
    /\ odooPartners = << >> /\ odooLeads = << >>

\* C30: when GERMANY_USER_IDS is not empty and the owner of a deal that passed
\* the status and pipeline filters is not in it, upsert_deal returns -1 with no
\* Odoo call and no change to the mapping or the Odoo records. A deal of a
\* pipeline in SURFE_ONLY_PIPELINES never meets the owner filter: when its
\* pipeline was read the handler skips upsert_deal whoever owns the deal, its
\* stage handler having run, and otherwise the pipeline filter returns first.
C30_ForeignOwnerSkippedUnlessBypassed ==
    [][\A p \in Handlers : h'[p] # h[p] =>
          LET d == pdDeals[h[p].deal_id] IN
          /\ (/\ h[p].pc = "deal_fetch"
              /\ ~Failed(p)
              /\ d.status # "deleted"
              /\ d.pipeline_id \in DOMAIN PIPELINE_MAP
              /\ GERMANY_USER_IDS # {}
              /\ d.user_id \notin GERMANY_USER_IDS) =>
                /\ ReturnedSkipped(h'[p])
                /\ NoOdooCalls(h'[p])
                /\ UNCHANGED << mapping, odooPartners, odooLeads >>
          /\ (/\ h[p].pc = "deal_fetch"
              /\ d.pipeline_id \in SURFE_ONLY_PIPELINES) =>
                /\ ~h[p].skip
                /\ d.pipeline_id \notin DOMAIN PIPELINE_MAP
          /\ (/\ h[p].pc = "stage"
              /\ d.pipeline_id \in SURFE_ONLY_PIPELINES
              /\ h'[p].pc # "deal_fetch") =>
                /\ h'[p].skip
                /\ d.stage_id = DOWNLOAD_STAGE_ID => h'[p].pc = "download"
                /\ d.stage_id = LEADFEEDER_STAGE_ID => h'[p].pc = "leadfeeder"
          /\ (h[p].skip /\ h[p].pc \in {"download", "leadfeeder", "pipecheck"}) =>
                h'[p].pc = "done" /\ NoOdooCalls(h'[p])
      ]_vars

\* a deal of a foreign owner in the synced pipeline was skipped by upsert_deal,
\* and the download stage handler ran for the same owner's deal in the
\* Surfe-only pipeline and stored an enrichment request
C30_Witness ==
    /\ world = "foreign"
    /\ \E p, q \in Handlers :
          /\ h[p].ev.obj = 1
          /\ ReturnedSkipped(h[p])
          /\ h[q].ev.obj = 2
          /\ h[q].pc = "done"
          /\ HasOp(h[q].log, "stage_handler")
          /\ HasOp(h[q].log, "save_enrichment")
          /\ ~HasOp(h[q].log, "upsert_deal_return")
    /\ pdDeals[1].user_id \notin GERMANY_USER_IDS
    /\ pdDeals[2].user_id \notin GERMANY_USER_IDS

\* ---- C31 ----
StageDone == calc.fn = "deal_stage" /\ calc.done

\* C31: the stage left on the crm.lead is the status table's entry whenever the
\* deal's status is won or lost, whatever its stage id; otherwise the stage-id
\* table's entry; and when neither table has an entry no stage is written, so
\* the lead keeps the stage it had.
C31_StatusTableBeforeStageTable ==
    StageDone =>
        IF calc.deal.status = "won" THEN calc.stage = 7
        ELSE IF calc.deal.status = "lost" THEN calc.stage = 9
        ELSE IF calc.deal.stage_id \in {65, 25} THEN calc.stage = 3
        ELSE IF calc.deal.stage_id \in {26, 27} THEN calc.stage = 5
        ELSE IF calc.deal.stage_id = 28 THEN calc.stage = 7
        ELSE calc.stage = calc.old_stage

\* a lost deal still sitting in a mapped stage gets the status table's stage
C31_Witness ==
    /\ StageDone
    /\ calc.deal.status = "lost"
    /\ calc.deal.stage_id = 25
    /\ calc.old_stage = 3
    /\ calc.stage = 9
\* ---- C32 ----
\* C32 (as claimed): rows leave the events and surfe_processed_deals tables
\* only at a process start, and a process start leaves both tables empty.
C32_LedgersClearedAtStartOnly ==
    [][IF calc'.starts # calc.starts
       THEN events' = {} /\ claimed' = {}
       ELSE events \subseteq events' /\ claimed \subseteq claimed']_vars
\* ---- C33 ----
\* the claim_surfe_deal calls on pair k that have returned since the process started
ClaimReturned(k) ==
    { p \in Handlers : /\ calc.callers[p].pc = "returned"
                       /\ calc.callers[p].op = "claim_surfe_deal"
                       /\ calc.callers[p].key = k }

ClaimWinners(k) == { p \in ClaimReturned(k) : calc.callers[p].result }

\* C33 (as claimed): of the calls on a pair that was unclaimed, exactly one
\* returns True; and a call returns False only because its own pair is claimed.
C33_ExactlyOneClaimWins ==
    calc.fn = "ledger" =>
        \A k \in ClaimPairs \ calc.before :
            /\ ClaimReturned(k) # {} => Cardinality(ClaimWinners(k)) = 1
            /\ \A p \in ClaimReturned(k) : ~calc.callers[p].result => k \in claimed

\* C33 (amended): of the calls on a pair that was unclaimed at most one returns
\* True, and exactly one does unless every call on the pair ended in
\* sqlite3.OperationalError (which also returns False and inserts nothing); a
\* call that returned True or met the primary key has its own pair in the
\* table, whatever was claimed for other pairs; a pair that was claimed before
\* has no winner.
C33_AtMostOneClaimWins ==
    calc.fn = "ledger" =>
        \A k \in ClaimPairs :
            /\ Cardinality(ClaimWinners(k)) <= 1
            /\ k \in calc.before => ClaimWinners(k) = {}
            /\ (/\ k \notin calc.before
                /\ \E p \in ClaimReturned(k) : calc.callers[p].raised # "OperationalError")
               => Cardinality(ClaimWinners(k)) = 1
            /\ \A p \in ClaimReturned(k) :
                 /\ calc.callers[p].raised # "OperationalError" => k \in claimed
                 /\ calc.callers[p].raised = "IntegrityError" =>
                        (k \in calc.before \/ ClaimWinners(k) # {} )
            /\ (ClaimReturned(k) = {} /\ k \notin calc.before) => k \notin claimed

\* two calls on the same unclaimed pair have returned, one True and one False,
\* while another pair is unclaimed
C33_Witness ==
    /\ calc.fn = "ledger"
    /\ calc.before = {}
    /\ ClaimReturned(<< 1, "download" >>) = {1, 2}
    /\ Cardinality(ClaimWinners(<< 1, "download" >>)) = 1
    /\ \E p \in Handlers : calc.callers[p].raised = "IntegrityError"
    /\ claimed = {<< 1, "download" >>}
\* ---- C34 ----
IsNote(e) == e.op \in {"pd_add_note", "pd_add_note_failed"}

IsStoreWrite(e) == e.op = "save_enrichment"

\* C34 (as claimed): the leadfeeder stage handler searches people and stores an
\* enrichment request only for a deal with a named organization and no linked
\* person; a deal with a linked person causes no search, no note and no store
\* write; a deal without organization or with an unnamed one causes exactly one
\* note and no search or store write.
C34_SearchOnlyForNamedOrgWithoutPerson ==
    [][\A p \in Handlers :
          (h[p].pc = "leadfeeder" /\ h'[p] # h[p]) =>
              LET new == Appended(h[p], h'[p])
                  notes == { i \in 1..Len(new) : IsNote(new[i]) }
                  searches == { i \in 1..Len(new) : IsPeopleSearch(new[i]) }
                  stores == { i \in 1..Len(new) : IsStoreWrite(new[i]) }
                  named == h[p].org_id # 0 /\ pdOrgs[h[p].org_id].name # ""
                  quiet == /\ searches = {} /\ stores = {}
                           /\ enrich' = enrich /\ surfeIssued' = surfeIssued
              IN  /\ ~quiet => (named /\ h[p].person_id = 0)
                  /\ h[p].person_id # 0 => (quiet /\ notes = {})
                  /\ ~named => (quiet /\ Cardinality(notes) = 1)
      ]_vars

\* C34 (amended): the handler searches people and stores an enrichment request
\* only for a deal with a named organization and no linked person; a deal
\* without organization causes exactly one note request and no search or store
\* write, whether or not a person is linked; a deal with an organization and a
\* linked person causes no search, no note and no store write; a deal with an
\* unnamed organization and no person causes no search or store write and
\* exactly one note request once the organization has been fetched.
C34_OrganizationCheckedBeforePerson ==
    [][\A p \in Handlers :
          (h[p].pc = "leadfeeder" /\ h'[p] # h[p]) =>
              LET new == Appended(h[p], h'[p])
                  notes == { i \in 1..Len(new) : IsNote(new[i]) }
                  searches == { i \in 1..Len(new) : IsPeopleSearch(new[i]) }
                  stores == { i \in 1..Len(new) : IsStoreWrite(new[i]) }
                  fetched == ~HasOp(new, "pd_get_failed")
                  named == h[p].org_id # 0 /\ pdOrgs[h[p].org_id].name # ""
                  quiet == /\ searches = {} /\ stores = {}
                           /\ enrich' = enrich /\ surfeIssued' = surfeIssued
              IN  /\ ~quiet => (named /\ h[p].person_id = 0)
                  /\ h[p].org_id = 0 =>
                        /\ quiet
                        /\ Cardinality(notes) = 1
                        /\ \A i \in notes : new[i].kind = "no_org"
                  /\ (h[p].org_id # 0 /\ h[p].person_id # 0) => (quiet /\ notes = {})
                  /\ (h[p].org_id # 0 /\ h[p].person_id = 0 /\ ~named) =>
                        /\ quiet
                        /\ fetched => Cardinality(notes) = 1
                        /\ \A i \in notes : new[i].kind = "no_org_name"
                        /\ ~fetched => notes = {}
      ]_vars

\* the handler ran for a deal with a linked person and no organization and
\* posted the no-organization note; and it ran for another deal without
\* organization and person
C34_Witness ==
    /\ world = "orphan"
    /\ \E p, q \in Handlers :
          /\ h[p].ev.obj = 1 /\ h[q].ev.obj = 2
          /\ \A r \in {p, q} :
                /\ HasOp(h[r].log, "stage_handler")
                /\ \E i \in 1..Len(h[r].log) :
                      h[r].log[i].op = "pd_add_note" /\ h[r].log[i].kind = "no_org"
                /\ ~HasOp(h[r].log, "surfe_search_people")
\* ---- C35 ----
IsOdooChange(e) == e.op \in {"odoo_write", "odoo_create"}

\* C35: a mapping row changes only in a mapping_set step that directly follows
\* the successful Odoo write or create of that entity with that id, and only
\* the row of that entity; a step in which a remote call fails ends the
\* request with an error and leaves every mapping row as it was.
C35_MappedOnlyAfterSuccessfulWrite ==
    [][/\ (\E k \in MappingKeys : mapping_get(k[1], k[2])' # mapping_get(k[1], k[2])) =>
            \E p \in Handlers :
                /\ h'[p] # h[p]
                /\ PendingSet(h[p])[1][1] # "none"
                /\ Len(h[p].log) > 0
                /\ IsOdooChange(h[p].log[Len(h[p].log)])
                /\ h[p].log[Len(h[p].log)].id = PendingSet(h[p])[2]
                /\ h[p].log[Len(h[p].log)].src = PendingSet(h[p])[1]
                /\ \A k \in MappingKeys :
                       k # PendingSet(h[p])[1] =>
                           mapping_get(k[1], k[2])' = mapping_get(k[1], k[2])
       /\ \A p \in Handlers :
             (h[p].pc # "done" /\ Failed(p)) =>
                 /\ \A k \in MappingKeys : mapping_get(k[1], k[2])' = mapping_get(k[1], k[2])
                 /\ PendingSet(h[p])[1][1] = "none"
      ]_vars

\* a deal request created and mapped the organization and the person, then a
\* remote call for the lead failed: the request ended with an error and the
\* deal has no mapping row
C35_Witness ==
    \E p \in Handlers :
        /\ h[p].pc = "done" /\ h[p].resp = "error"
        /\ h[p].ev.entity = "deal" /\ h[p].ev.obj = 1
        /\ \E i \in 1..Len(h[p].log) :
              h[p].log[i].op = "odoo_create" /\ h[p].log[i].src = << "person", 1 >>
        /\ mapping_get("person", 1) # 0
        /\ mapping_get("org", 1) # 0
        /\ mapping_get("deal", 1) = 0
        /\ \A q \in Handlers : q # p => h[q].pc = "idle"
\* ---- C36 ----
SameKeyDeliveries(p) ==
    { q \in Handlers \ {p} : /\ h[q].pc # "idle"
                             /\ TokenOk(h[q].ev.token, WEBHOOK_TOKEN)
                             /\ EventKey(h[q].ev) = EventKey(h[p].ev) }

\* C36: a request that is past event_seen has its key in the events table,
\* before login and before any reconcile call; and once the processing of an
\* event has failed, every other delivery of the same key is answered as a
\* duplicate and makes no call at all.
C36_FailedEventNeverReprocessed ==
    \A p \in Handlers :
        /\ (h[p].pc \notin {"idle", "done"}) => EventKey(h[p].ev) \in events
        /\ (h[p].pc = "login") => h[p].log = << >>
        /\ (h[p].pc = "done" /\ h[p].resp = "error") =>
              /\ EventKey(h[p].ev) \in events
              /\ \A q \in SameKeyDeliveries(p) :
                    /\ h[q].pc = "done"
                    /\ h[q].resp = "deduped"
                    /\ h[q].log = << >>

\* the processing of a deal event failed before anything was written, and the
\* redelivery of the same key was answered as a duplicate
C36_Witness ==
    \E p, q \in Handlers :
        /\ p # q
        /\ h[p].pc = "done" /\ h[p].resp = "error" /\ h[p].log = << >>
        /\ h[p].ev.entity = "deal" /\ h[p].ev.action = "update"
        /\ q \in SameKeyDeliveries(p)
        /\ h[q].resp = "deduped"
        /\ mapping_get("deal", h[p].ev.obj) = 0
\* ---- C37 ----
IsDealDelete(r) == r.ev.entity = "deal" /\ r.ev.action = "delete"

\* C37: a deal delete request, once past event_seen, only logs in, looks the
\* deal up in the mapping table and, if a row exists, makes one odoo_write on
\* that crm.lead which sets active to False; without a row it makes no Odoo
\* call and answers "archived"; no step of it creates a record, changes
\* another record or changes a mapping row.
C37_DeleteOnlyArchives ==
    [][\A p \in Handlers :
          (IsDealDelete(h[p]) /\ h[p].pc # "done" /\ h'[p] # h[p]) =>
              /\ h[p].pc \in {"login", "archive", "archive_write"}
              /\ \A k \in MappingKeys : mapping_get(k[1], k[2])' = mapping_get(k[1], k[2])
              /\ odooPartners' = odooPartners
              /\ Len(odooLeads') = Len(odooLeads)
              /\ h[p].pc = "login" => (h'[p].log = << >> /\ odooLeads' = odooLeads)
              /\ h[p].pc = "archive" =>
                    /\ odooLeads' = odooLeads
                    /\ h'[p].log = << >>
                    /\ IF mapping_get("deal", h[p].ev.obj) = 0
                       THEN h'[p].pc = "done" /\ h'[p].resp = "archived"
                       ELSE /\ h'[p].pc = "archive_write"
                            /\ h'[p].oid = mapping_get("deal", h[p].ev.obj)
              /\ h[p].pc = "archive_write" =>
                    /\ h'[p].pc = "done"
                    /\ IF Failed(p)
                       THEN h'[p].log = << >> /\ odooLeads' = odooLeads
                       ELSE /\ h'[p].log = << OdooCall("odoo_write", "crm.lead", h[p].oid,
                                                       << "deal", h[p].ev.obj >>) >>
                            /\ odooLeads' = [odooLeads EXCEPT ![h[p].oid].active = FALSE]
                            /\ h'[p].resp = "archived"
      ]_vars

\* a mapped deal was deleted: its crm.lead is archived by the one write of the
\* delete request, and the mapping row is still there
C37_Witness ==
    \E p \in Handlers :
        /\ IsDealDelete(h[p])
        /\ h[p].pc = "done" /\ h[p].resp = "archived"
        /\ Len(h[p].log) = 1
        /\ mapping_get("deal", h[p].ev.obj) = h[p].log[1].id
        /\ ~odooLeads[h[p].log[1].id].active
\* ---- C38 ----
\* C38: no step of a deal request whose action is neither create nor added
\* enters the stage check or a stage handler, searches people, stores an
\* enrichment request or changes the enrichment store, whatever the deal's stage.
C38_StageHandlersOnlyOnCreate ==
    [][\A p \in Handlers :
          (/\ h[p].ev.entity = "deal"
           /\ h[p].ev.action \notin {"create", "added"}
           /\ h'[p] # h[p]) =>
              /\ h'[p].pc \notin {"stage", "download", "leadfeeder"}
              /\ enrich' = enrich
              /\ surfeIssued' = surfeIssued
              /\ \A i \in 1..Len(h'[p].log) :
                    /\ h'[p].log[i].op # "stage_handler"
                    /\ ~IsPeopleSearch(h'[p].log[i])
                    /\ ~IsStoreWrite(h'[p].log[i])
      ]_vars

\* an update of the deal that sits in the leadfeeder stage with a named
\* organization and no person was handled to the end and nothing was requested
C38_Witness ==
    /\ world = "discover"
    /\ surfeIssued = 0
    /\ \A e \in EnrichIds : enrich[e] = NoRow
    /\ pdDeals[1].stage_id = LEADFEEDER_STAGE_ID
    /\ pdDeals[1].person_id = 0
    /\ \E p \in Handlers :
          /\ h[p].ev.entity = "deal" /\ h[p].ev.action = "update" /\ h[p].ev.obj = 1
          /\ h[p].pc = "done" /\ h[p].resp = "ok"
\* ---- C39 ----
OutsideAllowlist(d) == d.pipeline_id = 0 \/ d.pipeline_id \notin DOMAIN PIPELINE_MAP

NothingWrittenToOdoo(p) ==
    /\ odooPartners' = odooPartners
    /\ odooLeads' = odooLeads
    /\ \A k \in MappingKeys : mapping_get(k[1], k[2])' = mapping_get(k[1], k[2])
    /\ \A i \in 1..Len(h'[p].log) : ~IsOdooChange(h'[p].log[i])

\* C39 (as claimed): no step of a deal request for a deal whose pipeline is
\* outside PIPELINE_MAP creates or writes an Odoo record or a mapping row.
C39_OutsideAllowlistNeverWritten ==
    [][\A p \in Handlers :
          (/\ h[p].ev.entity = "deal"
           /\ h'[p] # h[p]
           /\ OutsideAllowlist(pdDeals[h[p].ev.obj])) => NothingWrittenToOdoo(p)
      ]_vars

\* C39 (amended): no step of a deal request other than a delete, for a deal
\* whose pipeline is outside PIPELINE_MAP, creates or writes an Odoo record or
\* a mapping row, also when the pipeline pre-check failed and upsert_deal was
\* reached, which then returns -1; a delete request for such a deal writes
\* nothing but the active flag of the lead the deal is mapped to.
C39_OutsideAllowlistWrittenOnlyByDelete ==
    [][\A p \in Handlers :
          (/\ h[p].ev.entity = "deal"
           /\ h'[p] # h[p]
           /\ OutsideAllowlist(pdDeals[h[p].ev.obj])) =>
              IF h[p].ev.action # "delete"
              THEN /\ NothingWrittenToOdoo(p)
                   /\ (h[p].pc = "deal_fetch" /\ ~Failed(p)) => ReturnedSkipped(h'[p])
              ELSE /\ odooPartners' = odooPartners
                   /\ \A k \in MappingKeys : mapping_get(k[1], k[2])' = mapping_get(k[1], k[2])
                   /\ \/ odooLeads' = odooLeads
                      \/ /\ h[p].pc = "archive_write"
                         /\ odooLeads' = [odooLeads EXCEPT ![mapping_get("deal", h[p].ev.obj)].active = FALSE]
      ]_vars

\* the pipeline pre-check of an update of a Surfe-only deal failed, upsert_deal
\* was reached and returned -1, and the lead the deal is mapped to is untouched
C39_Witness ==
    /\ world = "moved"
    /\ odooLeads = MovedLeads
    /\ \E p \in Handlers :
          /\ h[p].ev.action = "update" /\ h[p].ev.obj = 1
          /\ pdDeals[1].pipeline_id \in SURFE_ONLY_PIPELINES
          /\ mapping_get("deal", 1) = 1
          /\ ReturnedSkipped(h[p])
\* ---- C40 ----
\* C40 (as claimed): for a non-empty target name the candidate that
\* select_best_icp_person returns has an employer name: company or
\* companyName is present and not empty.
C40_ReturnedCandidateHasEmployer ==
    (SelectDone /\ calc.target # "" /\ calc.best # 0) =>
        PersonCompany(calc.people[calc.best]) # ""
====
